---- MODULE Spec2Model ----
(***************************************************************************)
(* Nutrition computation engine of Recipify-Backend: the aggregation of    *)
(* NutritionServiceV2.calculate_nutrition, the concurrent aggregation of   *)
(* get_macros.USDANutritionCalculator, and the pure methods they rest on   *)
(* (unit conversion, ingredient parsing), each called in a specification   *)
(* of its own.                                                             *)
(*                                                                         *)
(* Python floats are modelled as exact rationals [n, d] in lowest terms    *)
(* (d > 0); round(x, 1) is round-half-to-even on the exact value.          *)
(* Python strings are TLA+ strings; Optional[T] is the set {} (None) or    *)
(* {v}.  Python dicts that are iterated are sequences of <<key, value>>    *)
(* pairs in insertion order.                                               *)
(***************************************************************************)
EXTENDS Integers, Sequences, FiniteSets, TLC

VARIABLES
    ingredients,          \* calculate_nutrition: the argument list
    pc,                   \* calculate_nutrition: position in the loop body
    idx,                  \* calculate_nutrition: 1-based index of the loop
    amount_in_grams,      \* local of the loop body (Optional)
    matched_food,         \* local of the loop body (Optional)
    ingredient_nutrients, \* list of IngredientNutrition built so far
    ingredient_details,   \* list of detail dicts built so far
    total_nutrients,      \* running totals, nutrient key -> number
    total_weight,         \* running total of converted grams
    response,             \* Optional NutritionResponse (set on return)
    requests,             \* log of HTTP requests issued, in order
    scaled_values,        \* the ingredient_nutrient_values of each appended entry
    call,                 \* pure-function harness: the call being made
    ret,                  \* pure-function harness: Optional result
    macros_pc,            \* calculate_recipe_nutrition: position
    tasks,                \* one process_ingredient coroutine per ingredient
    semaphore,            \* free slots of USDANutritionCalculator.semaphore
    recipe_details,       \* Optional dict returned by calculate_recipe_nutrition
    documents,            \* Firestore collection 'recipes': id -> Optional doc
    store_calls           \* FirebaseService.store_recipe: the calls in progress

vars == <<ingredients, pc, idx, amount_in_grams, matched_food,
          ingredient_nutrients, ingredient_details, total_nutrients,
          total_weight, response, requests, scaled_values, call, ret,
          macros_pc, tasks, semaphore, recipe_details, documents,
          store_calls>>

aggVars == <<ingredients, pc, idx, amount_in_grams, matched_food,
             ingredient_nutrients, ingredient_details, total_nutrients,
             total_weight, response, requests, scaled_values>>

macrosVars == <<macros_pc, tasks, semaphore, recipe_details>>

storeVars == <<documents, store_calls>>

-----------------------------------------------------------------------------
(* Optional values *)

None == {}
Some(v) == {v}
The(o) == CHOOSE v \in o : TRUE

-----------------------------------------------------------------------------
(* Exact rational arithmetic standing for float arithmetic *)

Abs(n) == IF n < 0 THEN -n ELSE n

RECURSIVE GCD(_, _)
GCD(a, b) == IF b = 0 THEN a ELSE CHOOSE g \in {GCD(b, r) : r \in {a % b}} : TRUE

\* evaluates e once and applies F to its value
Let(e, F(_)) == CHOOSE v \in {F(x) : x \in {e}} : TRUE

Norm(n, d) ==
    LET F(g) == [n |-> n \div g, d |-> d \div g]
    IN  Let(GCD(Abs(n), d), F)

RInt(n) == [n |-> n, d |-> 1]

RMulV(a, b) ==
    LET F(g1) ==
            LET G(g2) == [n |-> (a.n \div g1) * (b.n \div g2),
                          d |-> (a.d \div g2) * (b.d \div g1)]
            IN  Let(GCD(Abs(b.n), a.d), G)
    IN  IF a.n = 0 \/ b.n = 0 THEN RInt(0)
        ELSE Let(GCD(Abs(a.n), b.d), F)

RMul(a, b) == CHOOSE v \in {RMulV(x, y) : x \in {a}, y \in {b}} : TRUE

RAddV(a, b) ==
    LET F(g) == Norm(a.n * (b.d \div g) + b.n * (a.d \div g),
                     (a.d \div g) * b.d)
    IN  Let(GCD(a.d, b.d), F)

RAdd(a, b) == CHOOSE v \in {RAddV(x, y) : x \in {a}, y \in {b}} : TRUE

RDiv(a, k) == RMul(a, [n |-> 1, d |-> k])

RLess(a, b) == a.n * b.d < b.n * a.d

RPos(a) == a.n > 0
RNeg(a) == a.n < 0
RZero == RInt(0)

RECURSIVE SumTo(_, _)
SumTo(f, n) == IF n = 0 THEN RZero ELSE RAdd(SumTo(f, n - 1), f[n])

\* sum(list)
Sum(list) == SumTo(list, Len(list))

\* round(x, 1)
Round1(x) ==
    LET F(a) == 
    LET whole == a.n \div a.d
        rem == a.n - whole * a.d
        tenths == (10 * rem) \div a.d
        r == 10 * rem - tenths * a.d
        q == 10 * whole + tenths
        up == \/ 2 * r > a.d
              \/ (2 * r = a.d /\ q % 2 = 1)
    IN  Norm(IF up THEN q + 1 ELSE q, 10)
    IN  Let(x, F)

-----------------------------------------------------------------------------
(* Strings *)

Uppers == "ABCDEFGHIJKLMNOPQRSTUVWXYZ"
Lowers == "abcdefghijklmnopqrstuvwxyz"
Digits == "0123456789"

Ch(s, i) == SubSeq(s, i, i)

IsIn(c, alphabet) == \E k \in 1..Len(alphabet) : Ch(alphabet, k) = c

LowerCh(c) ==
    IF IsIn(c, Uppers)
    THEN Ch(Lowers, CHOOSE k \in 1..26 : Ch(Uppers, k) = c)
    ELSE c

\* str.lower()
RECURSIVE ToLower(_)
ToLower(s) == IF s = "" THEN "" ELSE LowerCh(Head(s)) \o ToLower(Tail(s))

\* `sub in s`
Contains(s, sub) ==
    \E str \in {s} : \E part \in {sub} :
        \E i \in 1..(Len(str) - Len(part) + 1) :
            SubSeq(str, i, i + Len(part) - 1) = part

StartsWith(s, p) == Len(p) <= Len(s) /\ SubSeq(s, 1, Len(p)) = p

IsSpace(c) == c = " "
IsDigit(c) == IsIn(c, Digits)

RECURSIVE LStrip(_)
LStrip(s) == IF s # "" /\ IsSpace(Head(s)) THEN LStrip(Tail(s)) ELSE s

RECURSIVE RStrip(_)
RStrip(s) ==
    IF s # "" /\ IsSpace(Ch(s, Len(s)))
    THEN RStrip(SubSeq(s, 1, Len(s) - 1)) ELSE s

\* str.strip()
Strip(s) == RStrip(LStrip(s))

\* str.split(): the whitespace-separated words, in order
RECURSIVE SplitFrom(_, _)
SplitFrom(s, cur) ==
    IF s = "" THEN (IF cur = "" THEN <<>> ELSE <<cur>>)
    ELSE IF IsSpace(Head(s))
         THEN (IF cur = "" THEN SplitFrom(Tail(s), "")
               ELSE <<cur>> \o SplitFrom(Tail(s), ""))
         ELSE SplitFrom(Tail(s), cur \o Head(s))

Split(s) == SplitFrom(s, "")

Range(f) == {f[i] : i \in DOMAIN f}

\* position of the first pair of a dict whose key satisfies P, or 0
FirstKey(dict, P(_)) ==
    IF \E i \in 1..Len(dict) : P(dict[i][1])
    THEN CHOOSE i \in 1..Len(dict) :
            P(dict[i][1]) /\ \A j \in 1..(i - 1) : ~P(dict[j][1])
    ELSE 0

HasKey(dict, k) == \E i \in 1..Len(dict) : dict[i][1] = k
Get(dict, k) == dict[CHOOSE i \in 1..Len(dict) : dict[i][1] = k][2]

-----------------------------------------------------------------------------
(* NutritionServiceV2.__init__: the lookup tables *)

Dec(n, d) == Norm(n, d)

food_mappings ==
    << <<"potatoes", "170026">>, <<"water", "174858">>, <<"salt", "173468">>,
       <<"baking soda", "171405">>, <<"parmesan cheese", "171242">>,
       <<"butter", "173430">>, <<"milk", "746782">>,
       <<"whole milk", "746782">>, <<"2% milk", "746786">>,
       <<"1% milk", "746784">>, <<"skim milk", "746783">> >>

nutrient_map ==
    << <<"calories", 1008>>, <<"total_fat", 1004>>,
       <<"saturated_fat", 1258>>, <<"trans_fat", 1257>>,
       <<"cholesterol", 1253>>, <<"sodium", 1093>>,
       <<"total_carbohydrates", 1005>>, <<"dietary_fiber", 1079>>,
       <<"total_sugars", 2000>>, <<"added_sugars", 1235>>,
       <<"protein", 1003>>, <<"vitamin_d", 1114>>, <<"calcium", 1087>>,
       <<"iron", 1089>>, <<"potassium", 1092>> >>

NutrientKeys == {nutrient_map[i][1] : i \in 1..Len(nutrient_map)}

liquid_density ==
    << <<"water", Dec(1, 1)>>, <<"milk", Dec(103, 100)>>,
       <<"olive oil", Dec(92, 100)>>, <<"vegetable oil", Dec(92, 100)>>,
       <<"honey", Dec(142, 100)>>, <<"maple syrup", Dec(137, 100)>>,
       <<"soy sauce", Dec(11, 10)>>, <<"vinegar", Dec(101, 100)>>,
       <<"default", Dec(1, 1)>> >>

serving_sizes ==
    << <<"chicken breast", Dec(85, 1)>>, <<"salmon", Dec(85, 1)>>,
       <<"beef", Dec(85, 1)>>, <<"egg", Dec(50, 1)>>,
       <<"potato", Dec(150, 1)>>, <<"potatoes", Dec(150, 1)>>,
       <<"onion", Dec(110, 1)>>, <<"tomato", Dec(123, 1)>>,
       <<"carrot", Dec(61, 1)>>, <<"lettuce", Dec(47, 1)>>,
       <<"spinach", Dec(30, 1)>>, <<"avocado", Dec(50, 1)>>,
       <<"cheese", Dec(28, 1)>>, <<"parmesan cheese", Dec(5, 1)>>,
       <<"butter", Dec(142, 10)>>, <<"milk", Dec(244, 1)>>,
       <<"yogurt", Dec(170, 1)>>, <<"salt", Dec(6, 1)>>,
       <<"pepper", Dec(2, 1)>>, <<"herbs", Dec(1, 1)>>,
       <<"spices", Dec(2, 1)>>, <<"baking soda", Dec(46, 10)>>,
       <<"default", Dec(30, 1)>> >>

volume_conversion ==
    << <<"cup", Dec(236588, 1000)>>, <<"tbsp", Dec(14787, 1000)>>,
       <<"tsp", Dec(4929, 1000)>>, <<"fl oz", Dec(29574, 1000)>>,
       <<"ml", Dec(1, 1)>>, <<"l", Dec(1000, 1)>>,
       <<"pint", Dec(473176, 1000)>>, <<"quart", Dec(946353, 1000)>>,
       <<"gallon", Dec(378541, 100)>> >>

weight_conversion ==
    << <<"g", Dec(1, 1)>>, <<"kg", Dec(1000, 1)>>, <<"mg", Dec(1, 1000)>>,
       <<"oz", Dec(283495, 10000)>>, <<"lb", Dec(453592, 1000)>>,
       <<"pound", Dec(453592, 1000)>> >>

-----------------------------------------------------------------------------
(* NutritionServiceV2.get_density_factor *)

\* no fallback to the 'default' density when no liquid matches
get_density_factor_no_default(ingredient) ==
    LET lowered == ToLower(ingredient)
        InName(liquid) == Contains(lowered, liquid)
        k == FirstKey(liquid_density, InName)
    IN  IF k # 0 THEN liquid_density[k][2] ELSE RZero

get_density_factor(ingredient) ==
    LET lowered == ToLower(ingredient)
        InName(liquid) == Contains(lowered, liquid)
        k == FirstKey(liquid_density, InName)
    IN  IF k # 0 THEN liquid_density[k][2] ELSE Get(liquid_density, "default")

(* NutritionServiceV2.convert_to_grams; unit is Optional[str] *)

\* convert_to_grams without the ingredient-specific branches of lines 180-194:
\* every volume unit goes through the density
convert_to_grams_no_overrides(amount, unit_opt, ingredient) ==
    IF unit_opt = None \/ The(unit_opt) = ""
    THEN LET ingredient_lower == ToLower(ingredient)
             InName(known) == Contains(ingredient_lower, known)
             k == FirstKey(serving_sizes, InName)
         IN  IF k # 0 THEN RMul(amount, serving_sizes[k][2])
             ELSE RMul(amount, Get(serving_sizes, "default"))
    ELSE
    LET unit == Strip(ToLower(The(unit_opt)))
    IN  IF HasKey(weight_conversion, unit)
        THEN RMul(amount, Get(weight_conversion, unit))
        ELSE IF HasKey(volume_conversion, unit)
        THEN RMul(RMul(amount, Get(volume_conversion, unit)),
                  get_density_factor(ingredient))
        ELSE IF unit \in {"pinch", "dash"} THEN RMul(amount, Dec(5, 10))
        ELSE IF unit = "handful" THEN RMul(amount, Dec(30, 1))
        ELSE RMul(amount, Get(serving_sizes, "default"))

convert_to_grams(amount, unit_opt, ingredient) ==
    IF unit_opt = None \/ The(unit_opt) = ""
    THEN LET ingredient_lower == ToLower(ingredient)
             InName(known) == Contains(ingredient_lower, known)
             k == FirstKey(serving_sizes, InName)
         IN  IF k # 0 THEN RMul(amount, serving_sizes[k][2])
             ELSE RMul(amount, Get(serving_sizes, "default"))
    ELSE
    LET unit == Strip(ToLower(The(unit_opt)))
        ingredient_lower == ToLower(ingredient)
        special ==
            IF unit \in {"pinch", "dash"} THEN RMul(amount, Dec(5, 10))
            ELSE IF unit = "handful" THEN RMul(amount, Dec(30, 1))
            ELSE RMul(amount, Get(serving_sizes, "default"))
    IN  IF HasKey(weight_conversion, unit)
        THEN RMul(amount, Get(weight_conversion, unit))
        ELSE IF HasKey(volume_conversion, unit)
        THEN IF ingredient_lower \in {"water"}
             THEN RMul(amount, Get(volume_conversion, unit))
             ELSE IF ingredient_lower \in {"salt", "baking soda"}
             THEN IF unit = "tsp"
                  THEN RMul(amount, Get(serving_sizes, ingredient_lower))
                  ELSE IF unit = "tbsp"
                  THEN RMul(amount,
                            RMul(Get(serving_sizes, ingredient_lower), RInt(3)))
                  ELSE special
             ELSE IF ingredient_lower \in {"butter", "parmesan cheese"}
             THEN IF unit = "tbsp"
                  THEN RMul(amount, Get(serving_sizes, ingredient_lower))
                  ELSE IF unit = "cup"
                  THEN RMul(amount,
                            RMul(Get(serving_sizes, ingredient_lower), RInt(16)))
                  ELSE special
             ELSE IF Contains(ingredient_lower, "potato") /\ unit = "cup"
             THEN RMul(amount, Dec(150, 1))
             ELSE RMul(RMul(amount, Get(volume_conversion, unit)),
                       get_density_factor(ingredient))
        ELSE special

-----------------------------------------------------------------------------
(* Python values of mixed type that cross the HTTP boundary *)

PyInt(i) == [t |-> "int", i |-> i, s |-> ""]
PyStr(s) == [t |-> "str", i |-> 0, s |-> s]
PyNum(r) == [t |-> "num", i |-> 0, s |-> "", r |-> r]

RECURSIVE NatToStr(_)
NatToStr(n) ==
    IF n < 10 THEN Ch(Digits, n + 1)
    ELSE NatToStr(n \div 10) \o Ch(Digits, (n % 10) + 1)

\* str(v)
PyToStr(v) == IF v.t = "int" THEN NatToStr(v.i) ELSE v.s

AllDigits(s) == s # "" /\ \A k \in 1..Len(s) : IsDigit(Ch(s, k))

DigitVal(c) == (CHOOSE k \in 1..10 : Ch(Digits, k) = c) - 1

RECURSIVE StrToNat(_)
StrToNat(s) ==
    IF s = "" THEN 0
    ELSE 10 * StrToNat(SubSeq(s, 1, Len(s) - 1)) + DigitVal(Ch(s, Len(s)))

\* int(v): Some(n), or None where Python raises ValueError
PyToInt(v) ==
    IF v.t = "int" THEN Some(v.i)
    ELSE IF AllDigits(Strip(v.s)) THEN Some(StrToNat(Strip(v.s)))
    ELSE None

-----------------------------------------------------------------------------
(* re.sub(r'\([^)]*\)', '', s) *)

IndexFrom(s, c, from) ==
    IF \E k \in from..Len(s) : Ch(s, k) = c
    THEN CHOOSE k \in from..Len(s) :
            Ch(s, k) = c /\ \A j \in from..(k - 1) : Ch(s, j) # c
    ELSE 0

RECURSIVE RemoveParens(_)
RemoveParens(s) ==
    LET open == IndexFrom(s, "(", 1)
        close == IF open = 0 THEN 0 ELSE IndexFrom(s, ")", open + 1)
    IN  IF open = 0 \/ close = 0 THEN s
        ELSE SubSeq(s, 1, open - 1)
                \o RemoveParens(SubSeq(s, close + 1, Len(s)))

-----------------------------------------------------------------------------
(* NutritionServiceV2.search_food: scoring of one candidate *)

EXACT_MATCH_BONUS == 100
WORD_MATCH_WEIGHT == 10
LENGTH_PENALTY_WEIGHT == 2
MODIFIER_PENALTY_WEIGHT == 15
PREFERRED_CATEGORY_BONUS == 20
BRAND_PENALTY == 10
PREPARED_FOOD_PENALTY == 25

prepared_indicators ==
    <<"sandwich", "dish", "recipe", "prepared", "with", "served", "in", "on">>

basic_ingredients ==
    << <<"milk", <<"coconut", "almond", "soy", "oat", "rice", "goat",
                   "flavored">> >>,
       <<"cheese", <<"processed", "food", "product", "substitute">> >>,
       <<"butter", <<"substitute", "spread", "margarine">> >>,
       <<"cream", <<"substitute", "non-dairy", "imitation">> >>,
       <<"oil", <<"blend", "substitute">> >>,
       <<"flour", <<"blend", "mix">> >>,
       <<"sugar", <<"substitute", "blend", "artificial">> >> >>

prep_methods == <<"raw", "cooked", "boiled", "baked", "fried", "steamed", "fresh">>

\* number of positions of a list that satisfy P
Count(list, P(_)) == Cardinality({i \in 1..Len(list) : P(list[i])})

word_match_score(query_lower, query_words, description) ==
    LET description_words == Range(Split(description))
        matching_words == query_words \cap description_words
        base == Cardinality(matching_words) * WORD_MATCH_WEIGHT
        words == Split(query_lower)
    IN  IF \A k \in 1..Len(words) : Contains(description, words[k])
        THEN RMul(RInt(base), Dec(15, 10))
        ELSE RInt(base)

prepared_food_penalty(description) ==
    LET InDesc(indicator) == Contains(description, indicator)
    IN  Count(prepared_indicators, InDesc) * PREPARED_FOOD_PENALTY

modifier_penalty(query_lower, description) ==
    LET Hits(modifiers) ==
            LET Hit(modifier) == /\ Contains(description, modifier)
                                 /\ ~Contains(query_lower, modifier)
            IN  Count(modifiers, Hit)
        RECURSIVE Penalties(_)
        Penalties(k) ==
            IF k = 0 THEN 0
            ELSE Penalties(k - 1)
                 + (IF Contains(query_lower, basic_ingredients[k][1])
                    THEN Hits(basic_ingredients[k][2]) ELSE 0)
    IN  Penalties(Len(basic_ingredients)) * MODIFIER_PENALTY_WEIGHT

prep_bonus(query_lower, description) ==
    LET query_preps == {m \in Range(prep_methods) : Contains(query_lower, m)}
        desc_preps == {m \in Range(prep_methods) : Contains(description, m)}
    IN  IF query_preps # {} /\ desc_preps # {}
        THEN (IF query_preps = desc_preps THEN 15 ELSE 0)
        ELSE IF query_preps = {} /\ Contains(description, "raw") THEN 10
        ELSE 0

\* the body of the `for food in result['foods']` loop; food.description is
\* present (the caller handles the KeyError of a missing description)
score_food(query_lower, query, food) ==
    LET description == ToLower(The(food.description))
        description_words == Range(Split(description))
        data_type == IF food.dataType = None THEN ""
                     ELSE ToLower(The(food.dataType))
        query_words == Range(Split(ToLower(query)))
        exact == IF query_lower = description THEN EXACT_MATCH_BONUS ELSE 0
        wms == word_match_score(query_lower, query_words, description)
        length_penalty == Cardinality(description_words) * LENGTH_PENALTY_WEIGHT
        category == IF data_type \in {"sr legacy", "foundation"}
                    THEN PREFERRED_CATEGORY_BONUS ELSE 0
        brand == IF Contains(data_type, "brand") \/ Contains(data_type, "branded")
                 THEN BRAND_PENALTY ELSE 0
        pfp == prepared_food_penalty(description)
        mp == modifier_penalty(query_lower, description)
        score == RAdd(wms, RInt(exact - length_penalty + category - brand
                                - pfp - mp + prep_bonus(query_lower, description)))
    IN  [fdcId |-> food.fdcId,
         description |-> food.description,
         dataType |-> food.dataType,
         score |-> score,
         score_breakdown |->
            [word_match |-> wms,
             length_penalty |-> length_penalty,
             modifier_penalty |-> mp,
             prepared_food_penalty |-> pfp,
             data_type |-> data_type,
             matching_words |-> query_words \cap description_words]]

\* list.sort(key=score, reverse=True): stable, descending
RECURSIVE InsertDesc(_, _)
InsertDesc(sorted, x) ==
    IF sorted = <<>> THEN <<x>>
    ELSE IF RLess(Head(sorted).score, x.score)
         THEN <<x>> \o sorted
         ELSE <<Head(sorted)>> \o InsertDesc(Tail(sorted), x)

\* a sort that is not stable: sort ascending, then reverse, which puts the
\* last of several equal scores first
RECURSIVE SortDesc_reversed(_)
SortDesc_reversed(list) ==
    LET RECURSIVE InsertBefore(_, _)
        InsertBefore(sorted, x) ==
            IF sorted = <<>> THEN <<x>>
            ELSE IF RLess(x.score, Head(sorted).score)
                 THEN <<Head(sorted)>> \o InsertBefore(Tail(sorted), x)
                 ELSE <<x>> \o sorted
    IN  IF list = <<>> THEN <<>>
        ELSE InsertBefore(SortDesc_reversed(SubSeq(list, 1, Len(list) - 1)),
                          list[Len(list)])

RECURSIVE SortDesc(_)
SortDesc(list) ==
    IF list = <<>> THEN <<>>
    ELSE InsertDesc(SortDesc(SubSeq(list, 1, Len(list) - 1)), list[Len(list)])

-----------------------------------------------------------------------------
(* NutritionServiceV2.search_food *)

\* the mapping table is looked up with the query as given, not lower-cased
search_food_local_case_sensitive(query) ==
    IF ToLower(query) = "water"
    THEN Some([raised |-> FALSE,
               foods |-> <<[fdcId |-> PyStr("water"),
                            description |-> Some("Water"),
                            dataType |-> Some("Custom")]>>])
    ELSE IF HasKey(food_mappings, query)
    THEN Some([raised |-> FALSE,
               foods |-> <<[fdcId |-> PyStr(Get(food_mappings, query)),
                            description |-> Some(query),
                            dataType |-> Some("SR Legacy")]>>])
    ELSE None

\* search_food without the special case of lines 212-219
search_food_local_no_water(query) ==
    LET query_lower == ToLower(query)
    IN  IF HasKey(food_mappings, query_lower)
        THEN Some([raised |-> FALSE,
                   foods |-> <<[fdcId |-> PyStr(Get(food_mappings, query_lower)),
                                description |-> Some(query),
                                dataType |-> Some("SR Legacy")]>>])
        ELSE None

\* the part before the HTTP request: Some(result) for water and for the
\* direct mappings, None when the request has to be made
search_food_local(query) ==
    LET query_lower == ToLower(query)
    IN  IF query_lower = "water"
        THEN Some([raised |-> FALSE,
                   foods |-> <<[fdcId |-> PyStr("water"),
                                description |-> Some("Water"),
                                dataType |-> Some("Custom")]>>])
        ELSE IF HasKey(food_mappings, query_lower)
        THEN Some([raised |-> FALSE,
                   foods |-> <<[fdcId |-> PyStr(Get(food_mappings, query_lower)),
                                description |-> Some(query),
                                dataType |-> Some("SR Legacy")]>>])
        ELSE None

\* the `query` parameter of the request
search_food_query(query) == Strip(RemoveParens(query))

\* the part after the HTTP request.  reply.kind = "error" stands for every
\* requests.exceptions.RequestException; otherwise reply.foods is the
\* Optional 'foods' list of the JSON body
search_food_reply(query, reply) ==
    LET query_lower == ToLower(query)
        cleaned == search_food_query(query)
    IN  IF reply.kind = "error" THEN [raised |-> FALSE, foods |-> <<>>]
        ELSE IF reply.foods = None \/ The(reply.foods) = <<>>
        THEN [raised |-> FALSE, foods |-> <<>>]
        ELSE LET foods == The(reply.foods)
             IN  IF \E k \in 1..Len(foods) : foods[k].description = None
                 THEN [raised |-> TRUE, foods |-> <<>>]
                 ELSE LET scored_foods ==
                              SortDesc([k \in 1..Len(foods) |->
                                        score_food(query_lower, cleaned, foods[k])])
                      IN  [raised |-> FALSE, foods |-> <<scored_foods[1]>>]

-----------------------------------------------------------------------------
(* NutritionServiceV2.get_food_nutrients *)

Zeros == [k \in NutrientKeys |-> RZero]

\* float(v): Some(x), or None where Python raises ValueError
PyToFloat(v) ==
    IF v.t = "num" THEN Some(v.r)
    ELSE IF v.t = "int" THEN Some(RInt(v.i))
    ELSE LET str == Strip(v.s)
             dot == IndexFrom(str, ".", 1)
             whole == IF dot = 0 THEN str ELSE SubSeq(str, 1, dot - 1)
             frac == IF dot = 0 THEN "" ELSE SubSeq(str, dot + 1, Len(str))
             RECURSIVE Pow10(_)
             Pow10(k) == IF k = 0 THEN 1 ELSE 10 * Pow10(k - 1)
         IN  IF dot = 0
             THEN (IF AllDigits(whole) THEN Some(RInt(StrToNat(whole))) ELSE None)
             ELSE IF (whole = "" \/ AllDigits(whole)) /\ (frac = "" \/ AllDigits(frac))
                     /\ (whole # "" \/ frac # "")
             THEN Some(RAdd(RInt(StrToNat(whole)),
                            Norm(StrToNat(frac), Pow10(Len(frac)))))
             ELSE None

get_food_nutrients_local(fdc_id) ==
    IF fdc_id = "water" THEN Some([raised |-> FALSE, nutrients |-> Zeros])
    ELSE None

\* one payload entry: the nutrient id and amount it carries, each Optional
entry_id(nutrient) ==
    IF nutrient.shape = "nutrient" THEN nutrient.id
    ELSE IF nutrient.shape = "nutrientId" THEN nutrient.id
    ELSE None

entry_amount(nutrient) ==
    IF nutrient.shape \in {"nutrient", "nutrientId"} THEN nutrient.amount
    ELSE None

\* the nutrient key an entry sets, as Optional
entry_key(nutrient) ==
    LET id == entry_id(nutrient)
        amount == entry_amount(nutrient)
    IN  IF id = None \/ amount = None THEN None
        ELSE IF PyToInt(The(id)) = None THEN None
        ELSE LET nutrient_id == The(PyToInt(The(id)))
             IN  IF \E k \in 1..Len(nutrient_map) : nutrient_map[k][2] = nutrient_id
                    /\ PyToFloat(The(amount)) # None
                 THEN Some(nutrient_map[CHOOSE k \in 1..Len(nutrient_map) :
                                          nutrient_map[k][2] = nutrient_id][1])
                 ELSE None

\* reply.kind = "error" stands for every RequestException; otherwise
\* reply.foodNutrients is the Optional 'foodNutrients' list of the JSON body.
\* An entry of shape "nutrient_null" has 'nutrient': null, on which .get fails.
get_food_nutrients_reply(reply) ==
    IF reply.kind = "error" THEN [raised |-> FALSE, nutrients |-> <<>>]
    ELSE LET entries == IF reply.foodNutrients = None THEN <<>>
                        ELSE The(reply.foodNutrients)
             Sets(k, key) == entry_key(entries[k]) = Some(key)
             present == {key \in NutrientKeys :
                            \E k \in 1..Len(entries) : Sets(k, key)}
             Last(key) == CHOOSE k \in 1..Len(entries) :
                            Sets(k, key) /\ \A j \in (k + 1)..Len(entries) : ~Sets(j, key)
         IN  IF \E k \in 1..Len(entries) : entries[k].shape = "nutrient_null"
             THEN [raised |-> TRUE, nutrients |-> <<>>]
             ELSE [raised |-> FALSE,
                   nutrients |-> [key \in present |->
                        The(PyToFloat(The(entry_amount(entries[Last(key)]))))]]

-----------------------------------------------------------------------------
(* models/schemas.py: NutritionLabel, IngredientNutrition, NutritionResponse *)

label_units ==
    [calories |-> "", total_fat |-> "g", saturated_fat |-> "g",
     trans_fat |-> "g", cholesterol |-> "mg", sodium |-> "mg",
     total_carbohydrates |-> "g", dietary_fiber |-> "g", total_sugars |-> "g",
     added_sugars |-> "g", protein |-> "g", vitamin_d |-> "mcg",
     calcium |-> "mg", iron |-> "mg", potassium |-> "mg"]

NutrientInfo(amount, unit) == [amount |-> amount, unit |-> unit]

\* dict.get(key, 0)
GetOr0(values, key) == IF key \in DOMAIN values THEN values[key] ELSE RZero

\* a label that never shows a serving of 0 g: `total_weight or 100`
NutritionLabel_default_serving(weight, values) ==
    [f \in NutrientKeys \cup {"serving_size"} |->
        IF f = "serving_size"
        THEN NutrientInfo(IF weight = RZero THEN RInt(100) ELSE weight, "g")
        ELSE IF f = "calories" THEN Round1(GetOr0(values, f))
        ELSE NutrientInfo(Round1(GetOr0(values, f)), label_units[f])]

\* NutritionLabel(serving_size=..., calories=round(..., 1), ...)
NutritionLabel(weight, values) ==
    [f \in NutrientKeys \cup {"serving_size"} |->
        IF f = "serving_size" THEN NutrientInfo(weight, "g")
        ELSE IF f = "calories" THEN Round1(GetOr0(values, f))
        ELSE NutrientInfo(Round1(GetOr0(values, f)), label_units[f])]

\* the number a label shows for a nutrient
LabelAmount(label, key) ==
    IF key = "calories" THEN label[key] ELSE label[key].amount

-----------------------------------------------------------------------------
(* The external reference service: the replies it can give *)

MaxIngredients == 3

EggFoods ==
    <<[fdcId |-> PyInt(172187), description |-> Some("Egg substitute, powder"),
       dataType |-> Some("SR Legacy")],
      [fdcId |-> PyInt(171287), description |-> Some("Egg, whole, raw, fresh"),
       dataType |-> Some("SR Legacy")],
      [fdcId |-> PyInt(748967), description |-> Some("Eggs, Grade A, Large, egg whole"),
       dataType |-> Some("Foundation")]>>

NoDescriptionFoods ==
    <<[fdcId |-> PyInt(171287), description |-> None, dataType |-> Some("SR Legacy")]>>

SearchReplies ==
    {[kind |-> "error"],
     [kind |-> "json", foods |-> None],
     [kind |-> "json", foods |-> Some(EggFoods)],
     [kind |-> "json", foods |-> Some(NoDescriptionFoods)]}

Nested(id, r) == [shape |-> "nutrient", id |-> Some(PyInt(id)), amount |-> Some(PyNum(r))]
Flat(id, r) == [shape |-> "nutrientId", id |-> Some(PyInt(id)), amount |-> Some(PyNum(r))]

\* per 100 g
EggPayload ==
    <<Nested(1008, Dec(143, 1)), Nested(1003, Dec(1256, 100)),
      Nested(1004, Dec(951, 100)), Nested(1005, Dec(72, 100)),
      Nested(1253, Dec(372, 1)), Nested(1051, Dec(7615, 100))>>

MilkPayload ==
    <<Flat(1008, Dec(60, 1)), Flat(1003, Dec(32, 10)), Flat(1004, Dec(32, 10)),
      Flat(1087, Dec(125, 1)), Flat(1114, Dec(11, 10))>>

SaltPayload ==
    <<Nested(1093, Dec(38758, 1)), Nested(1087, Dec(24, 1)),
      Nested(1089, Dec(33, 100)),
      [shape |-> "nutrient", id |-> Some(PyStr("n/a")), amount |-> Some(PyNum(RInt(1)))],
      [shape |-> "nutrient", id |-> Some(PyInt(1092)), amount |-> None]>>

ButterPayload ==
    <<Flat(1008, Dec(717, 1)), Flat(1004, Dec(8111, 100)), Flat(1258, Dec(51368, 1000))>>

NullPayload ==
    <<[shape |-> "nutrient_null", id |-> None, amount |-> None]>>

Payload(fdc_id) ==
    IF fdc_id \in {"171287", "748967", "172187"} THEN EggPayload
    ELSE IF fdc_id = "746782" THEN MilkPayload
    ELSE IF fdc_id = "173468" THEN SaltPayload
    ELSE IF fdc_id = "173430" THEN ButterPayload
    ELSE <<>>

NutrientReplies(fdc_id) ==
    {[kind |-> "error"],
     [kind |-> "json", foodNutrients |-> None],
     [kind |-> "json", foodNutrients |-> Some(Payload(fdc_id))],
     [kind |-> "json", foodNutrients |-> Some(NullPayload)]}

\* the NutritionIngredient values a request can carry
Ingredient(name, amount, unit) == [name |-> name, amount |-> amount, unit |-> unit]

Pantry ==
    {Ingredient("egg", Some(RInt(2)), None),
     Ingredient("whole milk", Some(RInt(1)), Some("cup")),
     Ingredient("salt", Some(RInt(1)), Some("pinch")),
     Ingredient("Water", None, Some("cup")),
     Ingredient("butter", Some(RInt(0)), Some("tbsp")),
     Ingredient("egg", Some(RInt(-2)), None)}

RECURSIVE ListsUpTo(_, _)
ListsUpTo(S, n) ==
    IF n = 0 THEN {<<>>}
    ELSE LET shorter == ListsUpTo(S, n - 1)
         IN  shorter \cup {Append(l, x) : l \in shorter, x \in S}

-----------------------------------------------------------------------------
(* NutritionServiceV2.calculate_nutrition *)

NoCall == [op |-> "none"]

\* calculate_nutrition is not running
IdleAggregator ==
    /\ ingredients = <<>>
    /\ pc = "idle"
    /\ idx = 1
    /\ amount_in_grams = None
    /\ matched_food = None
    /\ ingredient_nutrients = <<>>
    /\ ingredient_details = <<>>
    /\ total_nutrients = [key \in NutrientKeys |-> RZero]
    /\ total_weight = RZero
    /\ response = None
    /\ requests = <<>>
    /\ scaled_values = <<>>

\* no store_recipe call is in progress and the collection is empty
IdleStore ==
    /\ documents = <<>>
    /\ store_calls = <<>>

\* calculate_recipe_nutrition is not running
IdleMacros ==
    /\ macros_pc = "idle"
    /\ tasks = <<>>
    /\ semaphore = 0
    /\ recipe_details = None

InitCalculateNutrition ==
    /\ ingredients \in ListsUpTo(Pantry, MaxIngredients)
    /\ pc = "loop"
    /\ idx = 1
    /\ amount_in_grams = None
    /\ matched_food = None
    /\ ingredient_nutrients = <<>>
    /\ ingredient_details = <<>>
    /\ total_nutrients = [key \in NutrientKeys |-> RZero]
    /\ total_weight = RZero
    /\ response = None
    /\ requests = <<>>
    /\ scaled_values = <<>>
    /\ call = NoCall
    /\ ret = None
    /\ IdleMacros
    /\ IdleStore

\* `ingredient.amount or 1.0`
amount_or_1(ingredient) ==
    IF ingredient.amount = None \/ The(ingredient.amount) = RZero
    THEN RInt(1) ELSE The(ingredient.amount)

\* no try/except around the loop body: the exception leaves the function
Continue_abort(details, reqs) ==
    /\ pc' = "done"
    /\ amount_in_grams' = None
    /\ matched_food' = None
    /\ ingredient_details' = details
    /\ requests' = reqs
    /\ UNCHANGED <<ingredients, idx, ingredient_nutrients, total_nutrients,
                   total_weight, response, scaled_values>>

\* the failed ingredient is tried again
Continue_retry(details, reqs) ==
    /\ pc' = "loop"
    /\ amount_in_grams' = None
    /\ matched_food' = None
    /\ ingredient_details' = details
    /\ requests' = reqs
    /\ UNCHANGED <<ingredients, idx, ingredient_nutrients, total_nutrients,
                   total_weight, response, scaled_values>>

\* `continue`: on to the next ingredient, nothing recorded in `ingredients`
Continue(details, reqs) ==
    /\ pc' = "loop"
    /\ idx' = idx + 1
    /\ amount_in_grams' = None
    /\ matched_food' = None
    /\ ingredient_details' = details
    /\ requests' = reqs
    /\ UNCHANGED <<ingredients, ingredient_nutrients, total_nutrients,
                   total_weight, response, scaled_values>>

\* lines 506-543: scale the nutrients, add to the totals, append the label
ingredient_nutrient_values(nutrients, grams) ==
    [key \in NutrientKeys \cap DOMAIN nutrients |->
        RDiv(RMul(nutrients[key], grams), 100)]

\* the totals accumulate what the labels show
AddedTotals_rounded(totals, values) ==
    [key \in NutrientKeys |->
        IF key \in DOMAIN values THEN RAdd(totals[key], Round1(values[key]))
        ELSE totals[key]]

AddedTotals(totals, values) ==
    [key \in NutrientKeys |->
        IF key \in DOMAIN values THEN RAdd(totals[key], values[key])
        ELSE totals[key]]

IngredientNutrition(ingredient, label, matched, grams) ==
    [ingredient |-> ingredient,
     nutrition |-> label,
     matched_food |-> matched.description,
     converted_amount |-> grams]

\* the mass is rounded like the nutrients before it is summed
AddedWeight_rounded(weight, grams) == RAdd(weight, Round1(grams))

\* total_weight += amount_in_grams
AddedWeight(weight, grams) == RAdd(weight, grams)

\* ingredient_nutrients.append(...)
Appended(list, entry) == Append(list, entry)

\* lines 500-549, from the result of get_food_nutrients on
AfterNutrients(ingredient, grams, matched, details, result, reqs) ==
    IF result.raised \/ DOMAIN result.nutrients = {}
    THEN Continue(details, reqs)
    ELSE \E values \in {ingredient_nutrient_values(result.nutrients, grams)} :
             /\ total_nutrients' = AddedTotals(total_nutrients, values)
             /\ total_weight' = AddedWeight(total_weight, grams)
             /\ ingredient_nutrients' =
                    Appended(ingredient_nutrients,
                             IngredientNutrition(ingredient,
                                                 NutritionLabel(grams, values),
                                                 matched, grams))
             /\ scaled_values' = Append(scaled_values, values)
             /\ pc' = "loop"
             /\ idx' = idx + 1
             /\ amount_in_grams' = None
             /\ matched_food' = None
             /\ ingredient_details' = details
             /\ requests' = reqs
             /\ UNCHANGED <<ingredients, response>>

Detail(ingredient, matched, grams) ==
    [original_ingredient |-> ingredient,
     matched_food |-> matched.description,
     matched_id |-> matched.fdcId,
     data_type |-> matched.dataType,
     converted_amount |-> grams,
     original_amount |-> ingredient.amount,
     original_unit |-> ingredient.unit]

\* lines 482-504, from the result of search_food on
AfterSearch(ingredient, grams, result, reqs) ==
    IF result.raised \/ result.foods = <<>>
    THEN Continue(ingredient_details, reqs)
    ELSE \E matched \in {result.foods[1]} :
         \E details \in {Append(ingredient_details,
                                Detail(ingredient, matched, grams))} :
         \E fdc_id \in {PyToStr(matched.fdcId)} :
         \E local \in {get_food_nutrients_local(fdc_id)} :
             IF local # None
             THEN AfterNutrients(ingredient, grams, matched, details,
                                 The(local), reqs)
             ELSE /\ pc' = "nutrients"
                  /\ requests' = Append(reqs, [kind |-> "food", arg |-> fdc_id,
                                               idx |-> idx])
                  /\ matched_food' = Some(matched)
                  /\ amount_in_grams' = Some(grams)
                  /\ ingredient_details' = details
                  /\ UNCHANGED <<ingredients, idx, ingredient_nutrients,
                                 total_nutrients, total_weight, response,
                                 scaled_values>>

\* one pass of the loop body up to its first HTTP request
Iterate ==
    /\ pc = "loop"
    /\ idx <= Len(ingredients)
    /\ \E ingredient \in {ingredients[idx]} :
       \E grams \in {convert_to_grams(amount_or_1(ingredient), ingredient.unit,
                                      ingredient.name)} :
       \E local \in {search_food_local(ingredient.name)} :
           IF local # None
           THEN AfterSearch(ingredient, grams, The(local), requests)
           ELSE /\ pc' = "search"
                /\ requests' = Append(requests,
                                      [kind |-> "search",
                                       arg |-> search_food_query(ingredient.name),
                                       idx |-> idx])
                /\ amount_in_grams' = Some(grams)
                /\ UNCHANGED <<ingredients, idx, matched_food,
                               ingredient_nutrients, ingredient_details,
                               total_nutrients, total_weight, response,
                               scaled_values>>
    /\ UNCHANGED <<call, ret, macrosVars, storeVars>>

\* requests.get of search_food returns or raises
SearchReply ==
    /\ pc = "search"
    /\ \E reply \in SearchReplies :
       \E result \in {search_food_reply(ingredients[idx].name, reply)} :
          AfterSearch(ingredients[idx], The(amount_in_grams), result, requests)
    /\ UNCHANGED <<call, ret, macrosVars, storeVars>>

\* requests.get of get_food_nutrients returns or raises
NutrientReply ==
    /\ pc = "nutrients"
    /\ \E reply \in NutrientReplies(PyToStr(The(matched_food).fdcId)) :
       \E result \in {get_food_nutrients_reply(reply)} :
          AfterNutrients(ingredients[idx], The(amount_in_grams),
                         The(matched_food), ingredient_details, result, requests)
    /\ UNCHANGED <<call, ret, macrosVars, storeVars>>

\* lines 551-577: the loop is over
Return ==
    /\ pc = "loop"
    /\ idx > Len(ingredients)
    /\ response' = Some([ingredients |-> ingredient_nutrients,
                         total |-> NutritionLabel(total_weight, total_nutrients),
                         ingredient_details |-> ingredient_details])
    /\ pc' = "done"
    /\ UNCHANGED <<ingredients, idx, amount_in_grams, matched_food,
                   ingredient_nutrients, ingredient_details, total_nutrients,
                   total_weight, requests, scaled_values, call, ret,
                   macrosVars, storeVars>>

-----------------------------------------------------------------------------
(* get_macros.USDANutritionCalculator *)

nutrient_ids ==
    << <<"calories", "Energy">>, <<"protein", "Protein">>,
       <<"carbs", "Carbohydrate, by difference">>,
       <<"fat", "Total lipid (fat)">>, <<"fiber", "Fiber, total dietary">> >>

MacroKeys == {nutrient_ids[k][1] : k \in 1..Len(nutrient_ids)}

conversions ==
    << <<"g", RInt(1)>>, <<"kg", RInt(1000)>>, <<"oz", Dec(2835, 100)>>,
       <<"lb", Dec(45359, 100)>>, <<"cup", Dec(236588, 1000)>>,
       <<"tbsp", Dec(14787, 1000)>>, <<"tsp", Dec(4929, 1000)>> >>

\* _convert_to_grams: [raised, grams]; an unsupported unit raises ValueError
macros_convert_to_grams(amount, unit) ==
    IF ToLower(unit) = "" THEN [raised |-> FALSE, grams |-> amount]
    ELSE IF ~HasKey(conversions, ToLower(unit))
    THEN [raised |-> TRUE, grams |-> RZero]
    ELSE [raised |-> FALSE, grams |-> RMul(amount, Get(conversions, ToLower(unit)))]

\* the dataclass Ingredient
MacroIngredient(name, amount, unit) ==
    [name |-> name, amount |-> amount, unit |-> unit]

MacroPantry ==
    {MacroIngredient("egg", RInt(2), ""),
     MacroIngredient("flour", RInt(1), "cup"),
     MacroIngredient("butter", RInt(1), "stick")}

\* max_concurrent of the constructor
MaxConcurrent == {1, 5}

\* what session.get of search_food can bring: an HTTP error, a page without
\* foods, a page with one food
MacroSearchReplies(name) ==
    {[error |-> TRUE, foods |-> <<>>],
     [error |-> FALSE, foods |-> <<>>],
     [error |-> FALSE,
      foods |-> <<[fdcId |-> IF name = "egg" THEN 171287
                             ELSE IF name = "flour" THEN 168936
                             ELSE 173430]>>]}

MacroEntry(name, amount) == [nutrient |-> [name |-> name], amount |-> amount]

EggData ==
    <<MacroEntry("Protein", Some(Dec(1256, 100))),
      MacroEntry("Total lipid (fat)", Some(Dec(951, 100))),
      MacroEntry("Carbohydrate, by difference", Some(Dec(72, 100))),
      MacroEntry("Energy", Some(RInt(143))),
      MacroEntry("Cholesterol", Some(RInt(372)))>>

FlourData ==
    <<MacroEntry("Energy", Some(RInt(364))),
      MacroEntry("Protein", Some(Dec(1033, 100))),
      MacroEntry("Carbohydrate, by difference", Some(Dec(7631, 100))),
      MacroEntry("Total lipid (fat)", Some(Dec(98, 100))),
      MacroEntry("Fiber, total dietary", Some(Dec(27, 10)))>>

ButterData ==
    <<MacroEntry("Energy", Some(RInt(717))),
      MacroEntry("Total lipid (fat)", Some(Dec(8111, 100)))>>

\* what session.get of get_nutrients can bring: an HTTP error, the food's
\* data, data whose amounts are null
MacroNutrientReplies(food_id) ==
    LET data == IF food_id = 171287 THEN EggData
                ELSE IF food_id = 168936 THEN FlourData
                ELSE ButterData
    IN  {[error |-> TRUE, foodNutrients |-> <<>>],
         [error |-> FALSE, foodNutrients |-> data],
         [error |-> FALSE,
          foodNutrients |-> [k \in 1..Len(data) |->
                                MacroEntry(data[k].nutrient.name, None)]]}

\* get_nutrients, lines 51-59: the amount of the last entry carrying the
\* name of each key, 0.0 without one (Optional: null stays null)
get_nutrients(data) ==
    [key \in MacroKeys |->
        LET hits == {k \in 1..Len(data) :
                        data[k].nutrient.name = Get(nutrient_ids, key)}
        IN  IF hits = {} THEN Some(RZero)
            ELSE data[CHOOSE k \in hits : \A j \in hits : j <= k].amount]

\* process_ingredient, lines 73-94: the dict of an ingredient, None where
\* an exception is caught
ingredient_result(ingredient, nutrients_per_100g) ==
    LET converted == macros_convert_to_grams(ingredient.amount, ingredient.unit)
        conversion_factor == RDiv(converted.grams, 100)
        Scaled(key) == Round1(RMul(The(nutrients_per_100g[key]), conversion_factor))
    IN  IF converted.raised \/ \E key \in MacroKeys : nutrients_per_100g[key] = None
        THEN None
        ELSE Some([name |-> ingredient.name, amount |-> ingredient.amount,
                   unit |-> ingredient.unit,
                   calories |-> Scaled("calories"), protein |-> Scaled("protein"),
                   carbs |-> Scaled("carbs"), fat |-> Scaled("fat"),
                   fiber |-> Scaled("fiber")])

Task(ingredient, at, food_id, result) ==
    [ingredient |-> ingredient, pc |-> at, food_id |-> food_id, result |-> result]

\* the coroutine ends: `return` of process_ingredient
Finished(task, result) == Task(task.ingredient, "done", None, result)

\* line 105: one coroutine per ingredient, none has run yet
InitCalculateRecipeNutrition ==
    /\ IdleAggregator
    /\ IdleStore
    /\ call = NoCall
    /\ ret = None
    /\ macros_pc = "gather"
    /\ \E list \in ListsUpTo(MacroPantry, MaxIngredients) :
          tasks = [i \in 1..Len(list) |-> Task(list[i], "search_food", None, None)]
    /\ semaphore \in MaxConcurrent
    /\ recipe_details = None

\* `async with self.semaphore` of search_food and of get_nutrients, followed
\* by session.get
Acquire ==
    /\ macros_pc = "gather"
    /\ semaphore > 0
    /\ \E i \in 1..Len(tasks) :
          /\ tasks[i].pc \in {"search_food", "get_nutrients"}
          /\ tasks' = [tasks EXCEPT ![i].pc = @ \o ".get"]
    /\ semaphore' = semaphore - 1
    /\ UNCHANGED <<macros_pc, recipe_details, call, ret, aggVars, storeVars>>

\* session.get of search_food returns or raises; lines 64-71
SearchFoodReply ==
    /\ macros_pc = "gather"
    /\ \E i \in 1..Len(tasks) :
          /\ tasks[i].pc = "search_food.get"
          /\ \E reply \in MacroSearchReplies(tasks[i].ingredient.name) :
                tasks' = [tasks EXCEPT ![i] =
                            IF reply.error \/ reply.foods = <<>>
                            THEN Finished(@, None)
                            ELSE Task(@.ingredient, "get_nutrients",
                                      Some(reply.foods[1].fdcId), None)]
    /\ semaphore' = semaphore + 1
    /\ UNCHANGED <<macros_pc, recipe_details, call, ret, aggVars, storeVars>>

\* session.get of get_nutrients returns or raises; lines 74-99
GetNutrientsReply ==
    /\ macros_pc = "gather"
    /\ \E i \in 1..Len(tasks) :
          /\ tasks[i].pc = "get_nutrients.get"
          /\ \E reply \in MacroNutrientReplies(The(tasks[i].food_id)) :
                tasks' = [tasks EXCEPT ![i] =
                            IF reply.error THEN Finished(@, None)
                            ELSE Finished(@,
                                    ingredient_result(@.ingredient,
                                        get_nutrients(reply.foodNutrients)))]
    /\ semaphore' = semaphore + 1
    /\ UNCHANGED <<macros_pc, recipe_details, call, ret, aggVars, storeVars>>

\* [r for r in results if r is not None]
gathered_front(list) ==
    LET RECURSIVE Collect(_)
        Collect(k) ==
            IF k = 0 THEN <<>>
            ELSE IF list[k].result = None THEN Collect(k - 1)
            ELSE <<The(list[k].result)>> \o Collect(k - 1)
    IN  Collect(Len(list))

\* asyncio.gather gives the results in the order of the tasks; then
\* [r for r in results if r is not None]
gathered(list) ==
    LET RECURSIVE Collect(_)
        Collect(k) ==
            IF k = 0 THEN <<>>
            ELSE IF list[k].result = None THEN Collect(k - 1)
            ELSE Append(Collect(k - 1), The(list[k].result))
    IN  Collect(Len(list))

\* lines 106-125: every coroutine is over
GatherReturn ==
    /\ macros_pc = "gather"
    /\ \A i \in 1..Len(tasks) : tasks[i].pc = "done"
    /\ \E results \in {gathered(tasks)} :
          LET Column(key) == [i \in 1..Len(results) |-> results[i][key]]
          IN  recipe_details' =
                 Some([total_calories |-> Round1(Sum(Column("calories"))),
                       total_protein |-> Round1(Sum(Column("protein"))),
                       total_carbs |-> Round1(Sum(Column("carbs"))),
                       total_fat |-> Round1(Sum(Column("fat"))),
                       total_fiber |-> Round1(Sum(Column("fiber"))),
                       ingredients |-> results])
    /\ macros_pc' = "done"
    /\ UNCHANGED <<tasks, semaphore, call, ret, aggVars, storeVars>>

-----------------------------------------------------------------------------
(* The two aggregations *)

Init == InitCalculateNutrition \/ InitCalculateRecipeNutrition

Next ==
    \/ Iterate \/ SearchReply \/ NutrientReply \/ Return
    \/ Acquire \/ SearchFoodReply \/ GetNutrientsReply \/ GatherReturn

Spec == Init /\ [][Next]_vars

\* the interpreter runs the code between two requests; nothing makes the
\* reference service answer
LiveSpec ==
    Spec /\ WF_vars(Iterate) /\ WF_vars(Return)
         /\ WF_vars(Acquire) /\ WF_vars(GatherReturn)

-----------------------------------------------------------------------------
(* Properties of calculate_nutrition *)

Entries == The(response).ingredients
Total == The(response).total

LabelColumn(key) == [i \in 1..Len(Entries) |-> LabelAmount(Entries[i].nutrition, key)]
ScaledColumn(key) == [i \in 1..Len(scaled_values) |-> GetOr0(scaled_values[i], key)]

\* C1 (as stated): every nutrient field of the returned total equals the sum
\* of that field over the labels of the returned entries, rounded to one
\* decimal place.
C1_TotalIsSumOfLabels ==
    response # None =>
        \A key \in NutrientKeys :
            LabelAmount(Total, key) = Round1(Sum(LabelColumn(key)))

\* C1 (amended): every nutrient field of the returned total equals the sum,
\* rounded to one decimal place, of the unrounded scaled values (per-100-g
\* value times grams over 100) of the returned entries, each of whose labels
\* shows its own scaled value rounded to one decimal place.
C1_TotalIsRoundedSumOfScaled ==
    response # None =>
        /\ Len(scaled_values) = Len(Entries)
        /\ \A i \in 1..Len(Entries) : \A key \in NutrientKeys :
              LabelAmount(Entries[i].nutrition, key)
                 = Round1(GetOr0(scaled_values[i], key))
        /\ \A key \in NutrientKeys :
              LabelAmount(Total, key) = Round1(Sum(ScaledColumn(key)))

\* two labelled entries whose rounded values do not add up to the total
C1_Witness ==
    /\ response # None
    /\ Len(Entries) >= 2
    /\ \E key \in NutrientKeys :
          LabelAmount(Total, key) # Sum(LabelColumn(key))

Occurrences(list, x) == Cardinality({i \in 1..Len(list) : list[i] = x})

\* C2: at return every ingredient of the input, one whose lookup failed
\* included, appears in the returned `ingredients` list as often as in the
\* input (a failed one with no nutrition).
C2_FailedLookupStillListed ==
    response # None =>
        \A x \in Range(ingredients) :
            Occurrences([i \in 1..Len(Entries) |-> Entries[i].ingredient], x)
               = Occurrences(ingredients, x)

\* C3: the running weight, and at return total.serving_size.amount, is the
\* sum of the converted masses of exactly the entries that got a label.
C3_ServingSizeIsSumOfLabelled ==
    /\ total_weight
          = Sum([i \in 1..Len(ingredient_nutrients) |->
                    ingredient_nutrients[i].converted_amount])
    /\ response # None =>
          /\ Total.serving_size.amount
                = Sum([i \in 1..Len(Entries) |-> Entries[i].converted_amount])
          /\ \A i \in 1..Len(Entries) :
                Entries[i].nutrition.serving_size.amount
                   = Entries[i].converted_amount

\* a response with a labelled entry of fractional mass and a skipped ingredient
C3_Witness ==
    /\ response # None
    /\ Len(Entries) >= 1
    /\ Len(Entries) < Len(ingredients)
    /\ Total.serving_size.amount.d > 1

\* the entries calculate_recipe_nutrition returns
MacroEntries == The(recipe_details).ingredients

\* position i of the tasks stops with no result in this step
FailsAt(i) ==
    /\ tasks[i].pc # "done"
    /\ tasks'[i].pc = "done"
    /\ tasks'[i].result = None

\* C4: an ingredient that fails leaves the list of labels, the totals and
\* the weight as they were and the loop goes on to the next ingredient; the
\* function ends only by returning a response, after every ingredient.  In
\* get_macros a coroutine that fails ends with no result and leaves every
\* other coroutine as it was; calculate_recipe_nutrition ends only by
\* returning, after every coroutine, the results of those that did not fail.
C4_FailureIsolated ==
    /\ [](pc = "done" => (response # None /\ idx = Len(ingredients) + 1))
    /\ [][(idx' = idx + 1 /\ Len(ingredient_nutrients') = Len(ingredient_nutrients))
            => (/\ pc' = "loop"
                /\ UNCHANGED <<ingredients, ingredient_nutrients,
                               total_nutrients, total_weight, response>>)]_vars
    /\ [](macros_pc = "done" =>
            /\ recipe_details # None
            /\ \A i \in 1..Len(tasks) : tasks[i].pc = "done"
            /\ Len(MacroEntries)
                  = Cardinality({i \in 1..Len(tasks) : tasks[i].result # None})
            /\ \A i \in 1..Len(tasks) :
                  tasks[i].result # None =>
                      \E k \in 1..Len(MacroEntries) :
                          MacroEntries[k] = The(tasks[i].result))
    /\ [][\A i \in 1..Len(tasks) :
            FailsAt(i) =>
                /\ Len(tasks') = Len(tasks)
                /\ \A j \in 1..Len(tasks) : j # i => tasks'[j] = tasks[j]
                /\ UNCHANGED <<macros_pc, recipe_details>>]_vars

\* the first ingredient failed and a later one got its label
C4_Witness ==
    /\ response # None
    /\ Len(Entries) >= 1
    /\ Entries[1].ingredient # ingredients[1]
    /\ Len(ingredient_details) < Len(ingredients)

RECURSIVE IsSubsequence(_, _)
IsSubsequence(sub, list) ==
    IF sub = <<>> THEN TRUE
    ELSE IF list = <<>> THEN FALSE
    ELSE IF Head(sub) = Head(list) THEN IsSubsequence(Tail(sub), Tail(list))
    ELSE IsSubsequence(sub, Tail(list))

\* C5: the ingredients of the entries built so far, and of the returned
\* entries, are in the relative order of the input list; so are the entries
\* calculate_recipe_nutrition returns, in whatever order its coroutines end.
C5_OrderPreserved ==
    /\ IsSubsequence([i \in 1..Len(ingredient_nutrients) |->
                         ingredient_nutrients[i].ingredient],
                     SubSeq(ingredients, 1, idx - 1))
    /\ response # None =>
          IsSubsequence([i \in 1..Len(Entries) |-> Entries[i].ingredient],
                        ingredients)
    /\ recipe_details # None =>
          IsSubsequence([k \in 1..Len(MacroEntries) |->
                            MacroIngredient(MacroEntries[k].name,
                                            MacroEntries[k].amount,
                                            MacroEntries[k].unit)],
                        [i \in 1..Len(tasks) |-> tasks[i].ingredient])

\* two different ingredients both got a label
C5_Witness ==
    /\ response # None
    /\ Len(Entries) >= 2
    /\ Entries[1].ingredient # Entries[2].ingredient

\* C6: every call of calculate_nutrition eventually returns.
C6_EventuallyReturns == (pc = "loop") => <>(pc = "done")

\* C8: a batch with a negative amount is rejected before any conversion or
\* lookup: no request is issued, no entry is built and no response returned.
C8_NegativeAmountRejected ==
    (\E i \in 1..Len(ingredients) :
        ingredients[i].amount # None /\ RNeg(The(ingredients[i].amount)))
    => (requests = <<>> /\ ingredient_nutrients = <<>> /\ response = None)

\* C15: for an empty ingredient list calculate_nutrition returns an empty
\* `ingredients` list and a `total` whose 15 nutrient fields are all 0 and
\* whose serving_size.amount is 0.
C15_EmptyListGivesZeroLabel ==
    (response # None /\ ingredients = <<>>) =>
        /\ Entries = <<>>
        /\ \A key \in NutrientKeys : LabelAmount(Total, key) = RZero
        /\ Total.serving_size.amount = RZero

\* calculate_nutrition has returned for the empty list
C15_Witness ==
    /\ pc = "done"
    /\ response # None
    /\ ingredients = <<>>
    /\ Cardinality(NutrientKeys) = 15

\* the requests issued so far for ingredient i with the given kind
RequestsFor(i, kind) ==
    {k \in 1..Len(requests) : requests[k].idx = i /\ requests[k].kind = kind}

\* a step in which the reply to the outstanding request is a failure: the
\* search gives no food, or the nutrient request gives no nutrients
FailedReply ==
    /\ pc \in {"search", "nutrients"}
    /\ pc' # "nutrients"
    /\ ingredient_nutrients' = ingredient_nutrients

C19_Step ==
    /\ idx' >= idx
    /\ \/ requests' = requests
       \/ /\ Len(requests') = Len(requests) + 1
          /\ SubSeq(requests', 1, Len(requests)) = requests
          /\ requests'[Len(requests')].idx = idx
          /\ idx' = idx
          /\ RequestsFor(idx, requests'[Len(requests')].kind) = {}
    /\ FailedReply => (requests' = requests /\ idx' = idx + 1)

\* C19: calculate_nutrition never retries a lookup: it issues at most one
\* search request and at most one nutrient request per ingredient, only while
\* that ingredient is the current one, and after a failed reply it issues no
\* request and moves to the next ingredient.
C19_NoRetry == [][C19_Step]_vars

\* the search for one ingredient failed, no nutrient request followed for it,
\* and a later ingredient was looked up
C19_Witness ==
    /\ pc = "done"
    /\ \E i \in 1..Len(ingredients), j \in 1..Len(ingredients) :
          /\ i < j
          /\ Cardinality(RequestsFor(i, "search")) = 1
          /\ RequestsFor(i, "food") = {}
          /\ Cardinality(RequestsFor(j, "search")) = 1
          /\ Cardinality(RequestsFor(j, "food")) = 1

\* the positions of the batch already processed that name water
WaterDone ==
    {i \in 1..Len(ingredients) :
        ToLower(ingredients[i].name) = "water" /\ (i < idx \/ pc = "done")}

\* the entries built so far for ingredients that name water
WaterEntries ==
    {k \in 1..Len(ingredient_nutrients) :
        ToLower(ingredient_nutrients[k].ingredient.name) = "water"}

\* C20: an ingredient named water (any letter case) is processed without a
\* request to the external service: the special water entry is matched, and
\* the ingredient is in the response with an all-zero label whose serving
\* size is its converted mass.
C20_WaterNeedsNoRequest ==
    /\ \A i \in 1..Len(ingredients) :
          ToLower(ingredients[i].name) = "water" =>
              RequestsFor(i, "search") \cup RequestsFor(i, "food") = {}
    /\ Cardinality(WaterEntries) = Cardinality(WaterDone)
    /\ \A k \in WaterEntries :
          \E entry \in {ingredient_nutrients[k]} :
              /\ entry.matched_food = Some("Water")
              /\ \A key \in NutrientKeys :
                    LabelAmount(entry.nutrition, key) = RZero
              /\ entry.nutrition.serving_size.amount = entry.converted_amount
              /\ entry.converted_amount =
                    convert_to_grams(amount_or_1(entry.ingredient),
                                     entry.ingredient.unit, entry.ingredient.name)
    /\ response # None =>
          Cardinality({k \in 1..Len(Entries) :
                          ToLower(Entries[k].ingredient.name) = "water"})
            = Cardinality(WaterDone)

\* a cup of "Water" is in the response, 236.588 g, and no request was made
C20_Witness ==
    /\ response # None
    /\ requests = <<>>
    /\ \E k \in 1..Len(Entries) :
          /\ Entries[k].ingredient.name = "Water"
          /\ Entries[k].converted_amount = Dec(236588, 1000)
          /\ Entries[k].nutrition.serving_size.amount = Dec(236588, 1000)

\* C26: the amount supplied with an ingredient is the amount that is
\* converted, only an absent amount being replaced by 1.0: an ingredient
\* supplied with the amount 0 has a converted mass of 0 g and contributes 0
\* to every field of the total.
C26_SuppliedAmountConverted ==
    \A k \in 1..Len(ingredient_nutrients) :
        \E entry \in {ingredient_nutrients[k]} :
            /\ entry.ingredient.amount # None =>
                  entry.converted_amount =
                      convert_to_grams(The(entry.ingredient.amount),
                                       entry.ingredient.unit,
                                       entry.ingredient.name)
            /\ entry.ingredient.amount = Some(RZero) =>
                  /\ entry.converted_amount = RZero
                  /\ \A key \in NutrientKeys :
                        GetOr0(scaled_values[k], key) = RZero

-----------------------------------------------------------------------------
(* Calls of the pure methods, one call per behaviour *)

ConvertAmounts == {RInt(-1), RInt(0), Dec(1, 2), RInt(1), RInt(2)}

ConvertUnits ==
    {None, Some("")}
    \cup {Some(weight_conversion[k][1]) : k \in 1..Len(weight_conversion)}
    \cup {Some(volume_conversion[k][1]) : k \in 1..Len(volume_conversion)}
    \cup {Some("pinch"), Some("dash"), Some("handful"), Some("clove"),
          Some("Tbsp"), Some("cups"), Some(" cup ")}

ConvertNames ==
    {"water", "Water", "salt", "baking soda", "butter", "parmesan cheese",
     "potato", "sweet potatoes", "olive oil", "whole milk", "egg", "avocado",
     "flour", "honey", "cheese"}

InitConvert ==
    /\ IdleAggregator
    /\ IdleMacros
    /\ IdleStore
    /\ call \in {[op |-> "convert_to_grams", amount |-> a, unit |-> u,
                  ingredient |-> n] :
                    a \in ConvertAmounts, u \in ConvertUnits, n \in ConvertNames}
    /\ ret = None

ConvertToGrams ==
    /\ call.op = "convert_to_grams"
    /\ ret = None
    /\ ret' = Some(convert_to_grams(call.amount, call.unit, call.ingredient))
    /\ UNCHANGED <<call, aggVars, macrosVars, storeVars>>

NextConvert == ConvertToGrams

SpecConvert == InitConvert /\ [][NextConvert]_vars

\* C7 (as stated): convert_to_grams returns a strictly positive mass for
\* every non-negative amount, every unit and every ingredient name.
C7_PositiveForNonNegative ==
    (ret # None /\ ~RNeg(call.amount)) => RPos(The(ret))

\* C7 (amended): convert_to_grams returns a strictly positive mass for every
\* strictly positive amount, whatever the unit and the name, and 0 for the
\* amount 0.
C7_PositiveForPositive ==
    ret # None =>
        /\ RPos(call.amount) => RPos(The(ret))
        /\ call.amount = RZero => The(ret) = RZero

\* a positive amount in a unit of no table, converted by the 30 g fallback
C7_Witness ==
    /\ ret # None
    /\ call.unit = Some("clove")
    /\ RPos(call.amount)
    /\ The(ret) = RMul(call.amount, RInt(30))

\* the unit of the call as line 169 normalises it
CallUnit == Strip(ToLower(The(call.unit)))

\* the call names a volume unit
VolumeCall == call.unit # None /\ HasKey(volume_conversion, CallUnit)

\* C16: convert_to_grams applies the hand-tuned overrides: for butter and
\* tbsp the result is amount x 14.2, and for water and any volume unit it is
\* amount x the volume constant of the unit (1 cup of water = 236.588).
C16_HandTunedOverrides ==
    (ret # None /\ VolumeCall) =>
        /\ (ToLower(call.ingredient) = "butter" /\ CallUnit = "tbsp") =>
              The(ret) = RMul(call.amount, Dec(142, 10))
        /\ ToLower(call.ingredient) = "water" =>
              The(ret) = RMul(call.amount, Get(volume_conversion, CallUnit))
        /\ (ToLower(call.ingredient) = "water" /\ CallUnit = "cup") =>
              The(ret) = RMul(call.amount, Dec(236588, 1000))

\* 2 tbsp of butter have been converted to 28.4 g
C16_Witness ==
    /\ ret # None
    /\ call.ingredient = "butter"
    /\ call.unit = Some("tbsp")
    /\ call.amount = RInt(2)
    /\ The(ret) = Dec(284, 10)

\* the pairs (name, unit) for which lines 180-194 return a hand-tuned mass
HandTuned(ingredient_lower, unit) ==
    \/ ingredient_lower = "water"
    \/ ingredient_lower \in {"salt", "baking soda"} /\ unit \in {"tsp", "tbsp"}
    \/ ingredient_lower \in {"butter", "parmesan cheese"} /\ unit \in {"tbsp", "cup"}
    \/ Contains(ingredient_lower, "potato") /\ unit = "cup"

\* C17: for every volume unit u and every name n for which no hand-tuned
\* conversion exists for the pair (n, u), convert_to_grams(a, u, n) is
\* a x volume(u) x density(n), density(n) being the density of the first
\* liquid-table key contained in n, or 1.0.
C17_VolumeTimesDensity ==
    (ret # None /\ VolumeCall /\ ~HandTuned(ToLower(call.ingredient), CallUnit)) =>
        The(ret) = RMul(RMul(call.amount, Get(volume_conversion, CallUnit)),
                        get_density_factor(call.ingredient))

\* the serving masses as the specification lists them
C18_ServingMass ==
    << <<"egg", Dec(50, 1)>>, <<"avocado", Dec(170, 1)>>,
       <<"cheese", Dec(28, 1)>>, <<"salt", Dec(6, 1)>> >>

\* C18: with no unit convert_to_grams returns amount x the serving mass of
\* the table entry matched by the name, with egg = 50 g, avocado = 170 g,
\* cheese = 28 g and salt = 6 g; when no table entry matches the name it
\* returns amount x 30.
C18_NoUnitServingMass ==
    (ret # None /\ (call.unit = None \/ call.unit = Some(""))) =>
        /\ \A k \in 1..Len(C18_ServingMass) :
              call.ingredient = C18_ServingMass[k][1] =>
                  The(ret) = RMul(call.amount, C18_ServingMass[k][2])
        /\ (\A k \in 1..Len(serving_sizes) :
                ~Contains(ToLower(call.ingredient), serving_sizes[k][1])) =>
              The(ret) = RMul(call.amount, RInt(30))

\* C28: with no unit, when the lower-cased name is exactly a key of the
\* serving-size table, convert_to_grams uses the mass stored under that key
\* (parmesan cheese = 5 g), even when a shorter key is a substring of it.
C28_ExactKeyWins ==
    (ret # None /\ (call.unit = None \/ call.unit = Some(""))
        /\ HasKey(serving_sizes, ToLower(call.ingredient))) =>
            The(ret) = RMul(call.amount,
                            Get(serving_sizes, ToLower(call.ingredient)))

-----------------------------------------------------------------------------
(* Regular-expression matching as Python's re does it: leftmost, each       *)
(* quantifier greedy, backtracking to the first way that lets the whole     *)
(* pattern match.  Positions are 1-based; a run is a number of characters.  *)

Min(a, b) == IF a < b THEN a ELSE b

\* the length of the longest run of characters of `alphabet` from position p
RunIn(s, p, alphabet) ==
    CHOOSE k \in 0..(Len(s) - p + 1) :
        /\ \A j \in p..(p + k - 1) : IsIn(Ch(s, j), alphabet)
        /\ (p + k > Len(s) \/ ~IsIn(Ch(s, p + k), alphabet))

\* the length of the longest run of characters not in `alphabet` from p
RunNotIn(s, p, alphabet) ==
    CHOOSE k \in 0..(Len(s) - p + 1) :
        /\ \A j \in p..(p + k - 1) : ~IsIn(Ch(s, j), alphabet)
        /\ (p + k > Len(s) \/ IsIn(Ch(s, p + k), alphabet))

DigitsFrom(s, p) == RunIn(s, p, Digits)
SpacesFrom(s, p) == RunIn(s, p, " ")
TokenFrom(s, p) == RunNotIn(s, p, " ")

From(s, p) == SubSeq(s, p, Len(s))

-----------------------------------------------------------------------------
(* NutritionServiceV2.parse_amount *)

\* Fraction(text): [raised, value]; text is "a/b" or a decimal
ParseFraction(text) ==
    LET Raised == [raised |-> TRUE, value |-> RZero]
        Float(f) == IF f = None THEN Raised
                    ELSE [raised |-> FALSE, value |-> The(f)]
        Ratio(num, den) ==
            IF ~AllDigits(num) \/ ~AllDigits(den) THEN Raised
            ELSE IF StrToNat(den) = 0 THEN Raised
            ELSE [raised |-> FALSE, value |-> Norm(StrToNat(num), StrToNat(den))]
        At(slash) ==
            IF slash = 0 THEN Float(PyToFloat(PyStr(text)))
            ELSE Ratio(Strip(SubSeq(text, 1, slash - 1)),
                       Strip(SubSeq(text, slash + 1, Len(text))))
    IN  At(IndexFrom(text, "/", 1))

\* parse_amount without the mixed-number branch of lines 135-139
parse_amount_no_mixed(amount_str) ==
    LET Decimal(f) ==
            IF f = None THEN [raised |-> FALSE, value |-> RInt(1)]
            ELSE [raised |-> FALSE, value |-> The(f)]
        AfterSub(text) ==
            IF Contains(text, "/") THEN ParseFraction(text)
            ELSE Decimal(PyToFloat(PyStr(text)))
    IN  IF amount_str = "" THEN [raised |-> FALSE, value |-> RInt(1)]
        ELSE AfterSub(Strip(RemoveParens(amount_str)))

\* [raised, value]
parse_amount(amount_str) ==
    LET Raised == [raised |-> TRUE, value |-> RZero]
        Mixed(whole, frac) ==
            IF whole = None \/ frac.raised THEN Raised
            ELSE [raised |-> FALSE, value |-> RAdd(The(whole), frac.value)]
        Decimal(f) ==
            IF f = None THEN [raised |-> FALSE, value |-> RInt(1)]
            ELSE [raised |-> FALSE, value |-> The(f)]
        AfterSplit(text, parts) ==
            IF Len(parts) = 2 /\ Contains(parts[2], "/")
            THEN Mixed(PyToFloat(PyStr(parts[1])), ParseFraction(parts[2]))
            ELSE IF Contains(text, "/") THEN ParseFraction(text)
            ELSE Decimal(PyToFloat(PyStr(text)))
        AfterSub(text) == AfterSplit(text, Split(text))
    IN  IF amount_str = "" THEN [raised |-> FALSE, value |-> RInt(1)]
        ELSE AfterSub(Strip(RemoveParens(amount_str)))

-----------------------------------------------------------------------------
(* NutritionServiceV2.parse_ingredient_string: the pattern of line 443 *)

unit_words ==
    <<"cup", "tbsp", "tsp", "g", "oz", "lb", "ml", "l", "pound", "pinch",
      "dash", "handful">>

\* group 1, (?:\d*\s*\d+/\d+|\d+(?:\.\d+)?)?: the position of its last
\* character, 0 when it matches the empty string.  At least one character is
\* left for (.+).
AmountEnd(s) ==
    LET n == Len(s)
        Ends(a, b, c, slash) ==
            LET prefix_ok == /\ slash # 0
                             /\ \/ (b = 0 /\ a >= 1 /\ a + 1 = slash)
                                \/ (b >= 1 /\ c >= 1 /\ a + b + c + 1 = slash)
                d == IF prefix_ok
                     THEN Min(DigitsFrom(s, slash + 1), n - 1 - slash) ELSE 0
                f == IF a >= 1 /\ a + 1 <= n /\ Ch(s, a + 1) = "."
                     THEN Min(DigitsFrom(s, a + 2), n - 1 - (a + 1)) ELSE 0
            IN  IF prefix_ok /\ d >= 1 THEN slash + d
                ELSE IF a >= 1 /\ f >= 1 THEN a + 1 + f
                ELSE IF a >= 1 /\ a <= n - 1 THEN a
                ELSE IF a >= 2 THEN n - 1
                ELSE 0
        AfterB(a, b) == Ends(a, b, DigitsFrom(s, a + b + 1), IndexFrom(s, "/", 1))
        AfterA(a) == AfterB(a, SpacesFrom(s, a + 1))
    IN  AfterA(DigitsFrom(s, 1))

\* \s*, greedy, leaving at least one character: the next position
SkipSpaces(s, p) == p + Min(SpacesFrom(s, p), Len(s) - p)

\* does word w (lower case) stand at position p of s, whatever the case
WordAt(s, p, w) ==
    /\ p + Len(w) - 1 <= Len(s)
    /\ ToLower(SubSeq(s, p, p + Len(w) - 1)) = w

\* group 2, ((?:cup|...|handful)s?)?: the length it matches at p, 0 when it
\* does not take part; alternatives in order, s? greedy, one character left
UnitLen(s, p) ==
    LET n == Len(s)
        Fits(k) == WordAt(s, p, unit_words[k]) /\ p + Len(unit_words[k]) <= n
        Plural(k) ==
            IF WordAt(s, p + Len(unit_words[k]), "s") /\ p + Len(unit_words[k]) + 1 <= n
            THEN Len(unit_words[k]) + 1
            ELSE Len(unit_words[k])
        First(fitting) ==
            IF fitting = {} THEN 0
            ELSE Plural(CHOOSE k \in fitting : \A j \in fitting : k <= j)
    IN  First({k \in 1..Len(unit_words) : Fits(k)})

\* (?:of\s+)?: the next position
SkipOf(s, p) ==
    LET w == Min(SpacesFrom(s, p + 2), Len(s) - (p + 2))
    IN  IF WordAt(s, p, "of") /\ w >= 1 THEN p + 2 + w ELSE p

\* re.match(pattern, item, re.IGNORECASE).groups() of an item: the pattern
\* matches every item that is not empty
match_item(item) ==
    LET Groups(e1, p2, u, p4) ==
            [amount_str |-> SubSeq(item, 1, e1),
             unit |-> IF u = 0 THEN None ELSE Some(SubSeq(item, p2, p2 + u - 1)),
             name |-> From(item, p4)]
        AfterUnit(e1, p2, u) ==
            Groups(e1, p2, u, SkipOf(item, SkipSpaces(item, p2 + u)))
        AfterSpaces(e1, p2) == AfterUnit(e1, p2, UnitLen(item, p2))
        AfterAmount(e1) == AfterSpaces(e1, SkipSpaces(item, e1 + 1))
    IN  AfterAmount(AmountEnd(item))

\* re.findall(r'([^,()]+(?:\([^)]*\)[^,]*)?)', s)
RECURSIVE find_items(_)
find_items(s) ==
    IF s = "" THEN <<>>
    ELSE LET run == RunNotIn(s, 1, ",()")
             close == IF run + 1 <= Len(s) /\ Ch(s, run + 1) = "("
                      THEN IndexFrom(s, ")", run + 2) ELSE 0
             e == IF close = 0 THEN run
                  ELSE close + RunNotIn(s, close + 1, ",")
         IN  IF run = 0 THEN find_items(Tail(s))
             ELSE <<SubSeq(s, 1, e)>> \o find_items(From(s, e + 1))

\* the NutritionIngredient built from one item: [raised, ingredient]
parse_item(item) ==
    LET Built(groups, amount) ==
            [raised |-> amount.raised,
             ingredient |->
                Ingredient(Strip(groups.name),
                           IF groups.amount_str = "" THEN None
                           ELSE Some(amount.value),
                           IF groups.unit = None THEN None
                           ELSE Some(Strip(The(groups.unit))))]
        Matched(groups) ==
            Built(groups,
                  IF groups.amount_str = ""
                  THEN [raised |-> FALSE, value |-> RZero]
                  ELSE parse_amount(groups.amount_str))
    IN  Matched(match_item(item))

\* [raised, ingredients]
parse_ingredient_string(ingredient_string) ==
    LET NotEmpty(item) == item # ""
        Returned(parsed) ==
            IF \E k \in 1..Len(parsed) : parsed[k].raised
            THEN [raised |-> TRUE, ingredients |-> <<>>]
            ELSE [raised |-> FALSE,
                  ingredients |-> [k \in 1..Len(parsed) |-> parsed[k].ingredient]]
        Loop(items) == Returned([k \in 1..Len(items) |-> parse_item(items[k])])
        Stripped(found) ==
            Loop(SelectSeq([k \in 1..Len(found) |-> Strip(found[k])], NotEmpty))
    IN  Stripped(find_items(ingredient_string))

-----------------------------------------------------------------------------
(* parse_ingredient_string applied to "<number> <token> <rest>" *)

ParseNumbers ==
    {"", "2", "1/2", "1 1/2", "2.5", "3/4", "2 3/4", "10 1/3", "1/0", "1 1/0"}

ParseTokens ==
    {"tbsp", "Tbsp", "cups", "cup", "tsp", "g", "kg", "oz", "lb", "ml", "l",
     "pounds", "pinch", "dash", "handful", "large", "garlic", "olive",
     "medium", "ripe", "cloves"}

ParseRests == {"olive oil", "eggs", "flour", "of milk"}

Words(number, token, rest) ==
    IF number = "" THEN token \o " " \o rest
    ELSE number \o " " \o token \o " " \o rest

InitParse ==
    /\ IdleAggregator
    /\ IdleMacros
    /\ IdleStore
    /\ call \in {[op |-> "parse_ingredient_string", number |-> n, token |-> t,
                  rest |-> r, ingredient_string |-> Words(n, t, r)] :
                    n \in ParseNumbers, t \in ParseTokens, r \in ParseRests}
    /\ ret = None

ParseIngredientString ==
    /\ call.op = "parse_ingredient_string"
    /\ ret = None
    /\ ret' = Some(parse_ingredient_string(call.ingredient_string))
    /\ UNCHANGED <<call, aggVars, macrosVars, storeVars>>

NextParse == ParseIngredientString

SpecParse == InitParse /\ [][NextParse]_vars

\* the unit vocabulary as the specification lists it
C9_Vocabulary ==
    {"cup", "tbsp", "tsp", "g", "kg", "oz", "lb", "ml", "l", "pound", "pinch",
     "dash", "handful"}

C9_IsUnitWord(token) ==
    \/ ToLower(token) \in C9_Vocabulary
    \/ \E w \in C9_Vocabulary : ToLower(token) = w \o "s"

\* C9: in parse_ingredient_string the token that follows the leading number
\* becomes `unit` if and only if the whole token is a word of the unit
\* vocabulary (case-insensitive, optional trailing s); then `name` is the
\* text after the token; otherwise `unit` is empty and the token stays in
\* `name`.
C9_UnitIffVocabularyToken ==
    (ret # None /\ call.op = "parse_ingredient_string" /\ call.number # "") =>
        /\ ~The(ret).raised
        /\ Len(The(ret).ingredients) = 1
        /\ IF C9_IsUnitWord(call.token)
           THEN /\ The(ret).ingredients[1].unit = Some(call.token)
                /\ The(ret).ingredients[1].name = call.rest
           ELSE /\ The(ret).ingredients[1].unit = None
                /\ The(ret).ingredients[1].name = call.token \o " " \o call.rest

\* C11: parse_ingredient_string never raises to its caller: it returns a
\* list of parsed ingredients for every input string, a fraction with
\* denominator 0 included.
C11_ParserNeverRaises ==
    (ret # None /\ call.op = "parse_ingredient_string") => ~The(ret).raised

\* the largest numeral of the quantities C13 ranges over
MaxNumeral == 12

\* C13: a mixed number "a b/c" at the start of an ingredient line is parsed
\* to the amount a + b/c, and a simple fraction "b/c" to b/c (c > 0).
C13_MixedNumberIsSum ==
    (ret # None /\ call.op = "parse_ingredient_string") =>
        \A a \in 0..MaxNumeral, b \in 0..MaxNumeral, c \in 1..MaxNumeral :
            /\ call.number = NatToStr(a) \o " " \o NatToStr(b) \o "/" \o NatToStr(c)
                  => /\ ~The(ret).raised
                     /\ Len(The(ret).ingredients) = 1
                     /\ The(ret).ingredients[1].amount =
                            Some(RAdd(RInt(a), Norm(b, c)))
            /\ call.number = NatToStr(b) \o "/" \o NatToStr(c)
                  => /\ ~The(ret).raised
                     /\ Len(The(ret).ingredients) = 1
                     /\ The(ret).ingredients[1].amount = Some(Norm(b, c))

\* "1 1/2 cups flour" has been parsed to the amount 1.5
C13_Witness ==
    /\ ret # None
    /\ call.op = "parse_ingredient_string"
    /\ call.ingredient_string = "1 1/2 cups flour"
    /\ ~The(ret).raised
    /\ The(ret).ingredients[1].amount = Some(Dec(15, 10))

\* the vocabulary word of which a unit the parser emitted is a form
SingularOf(unit) ==
    unit_words[CHOOSE k \in 1..Len(unit_words) :
                  \/ ToLower(unit) = unit_words[k]
                  \/ ToLower(unit) = unit_words[k] \o "s"]

\* C27: every unit string parse_ingredient_string emits (a vocabulary word
\* in any letter case, with or without the trailing s) is converted by
\* convert_to_grams to the same mass as its lower-case singular form.
C27_EmittedUnitConvertsAsSingular ==
    (ret # None /\ call.op = "parse_ingredient_string" /\ ~The(ret).raised) =>
        \A k \in 1..Len(The(ret).ingredients) :
            \E parsed \in {The(ret).ingredients[k]} :
                parsed.unit # None =>
                    convert_to_grams(RInt(1), parsed.unit, parsed.name)
                      = convert_to_grams(RInt(1), Some(SingularOf(The(parsed.unit))),
                                         parsed.name)

-----------------------------------------------------------------------------
(* recipe_classifier.parse_ingredient *)

known_units ==
    {"oz", "tsp", "tbsp", "cup", "cups", "g", "kg", "lb", "ml", "l",
     "teaspoon", "teaspoons", "tablespoon", "tablespoons", "pinch", "can"}

qualitative_amounts == <<"a pinch", "a handful", "to taste", "as needed">>

\* re.findall(r'\(.*?\)', s): from each ( to the first ) after it
RECURSIVE parenthetical_notes(_)
parenthetical_notes(s) ==
    LET open == IndexFrom(s, "(", 1)
        close == IF open = 0 THEN 0 ELSE IndexFrom(s, ")", open + 1)
    IN  IF open = 0 \/ close = 0 THEN <<>>
        ELSE <<SubSeq(s, open, close)>> \o parenthetical_notes(From(s, close + 1))

\* " ".join(words)
RECURSIVE Join(_)
Join(words) ==
    IF words = <<>> THEN ""
    ELSE IF Len(words) = 1 THEN words[1]
    ELSE words[1] \o " " \o Join(Tail(words))

HasDigit(s) == \E k \in 1..Len(s) : IsDigit(Ch(s, k))

\* \d+(?:\.\d+)? at p, as long as it can be: its last position, 0 if none
NumEnd(s, p) ==
    LET Ends(m, f) ==
            IF m = 0 THEN 0
            ELSE IF f >= 1 THEN p + m + f
            ELSE p + m - 1
        AfterDigits(m) ==
            Ends(m, IF m >= 1 /\ p + m <= Len(s) /\ Ch(s, p + m) = "."
                    THEN DigitsFrom(s, p + m + 1) ELSE 0)
    IN  AfterDigits(DigitsFrom(s, p))

SpaceAt(s, p) == p <= Len(s) /\ Ch(s, p) = " "

\* numeric_amount at p with white space after it: the last position of the
\* first alternative that matches, 0 if none does
NumericAmountEnd(s, p) ==
    LET Ends(a, b, c) ==
            LET slash1 == p + a + b + c
                d1 == IF slash1 <= Len(s) /\ Ch(s, slash1) = "/"
                      THEN DigitsFrom(s, slash1 + 1) ELSE 0
                slash2 == p + a
                d2 == IF slash2 <= Len(s) /\ Ch(s, slash2) = "/"
                      THEN DigitsFrom(s, slash2 + 1) ELSE 0
                Plain(e) == IF a >= 1 /\ SpaceAt(s, e + 1) THEN e ELSE 0
                Simple(d) == IF a >= 1 /\ d >= 1 /\ SpaceAt(s, slash2 + d + 1)
                             THEN slash2 + d
                             ELSE Plain(NumEnd(s, p))
                Mixed(d) == IF a >= 1 /\ b >= 1 /\ c >= 1 /\ d >= 1
                               /\ SpaceAt(s, slash1 + d + 1)
                            THEN slash1 + d
                            ELSE Simple(d2)
            IN  Mixed(d1)
        AfterB(a, b) == Ends(a, b, DigitsFrom(s, p + a + b))
        AfterA(a) == AfterB(a, SpacesFrom(s, p + a))
    IN  AfterA(DigitsFrom(s, p))

\* range_pattern: [matched, amount, rest]
match_range(s) ==
    LET Groups(e1, sep, e2, w) ==
            IF e1 >= 1 /\ sep >= 1 /\ e2 >= 1 /\ w >= 1
            THEN [matched |-> TRUE, amount |-> SubSeq(s, 1, e2),
                  rest |-> From(s, e2 + w + 1)]
            ELSE [matched |-> FALSE, amount |-> "", rest |-> ""]
        AfterSecond(e1, sep, e2) ==
            Groups(e1, sep, e2, Min(SpacesFrom(s, e2 + 1), Len(s) - e2 - 1))
        AfterSep(e1, p1, sep) ==
            AfterSecond(e1, sep,
                        NumEnd(s, p1 + sep + SpacesFrom(s, p1 + sep)))
        AfterSpaces(e1, p1) ==
            AfterSep(e1, p1,
                     IF p1 <= Len(s) /\ Ch(s, p1) = "-" THEN 1
                     ELSE IF p1 + 1 <= Len(s) /\ SubSeq(s, p1, p1 + 1) = "to" THEN 2
                     ELSE 0)
        AfterFirst(e1) == AfterSpaces(e1, e1 + 1 + SpacesFrom(s, e1 + 1))
    IN  AfterFirst(NumEnd(s, 1))

\* pattern_unit_first: [matched, unit, amount, ingredient]
match_unit_first(s) ==
    LET Groups(lead, u, p, e, w2) ==
            IF u >= 1 /\ p > lead + u + 1 /\ e >= 1 /\ w2 >= 1
            THEN [matched |-> TRUE, unit |-> SubSeq(s, lead + 1, lead + u),
                  amount |-> SubSeq(s, p, e), ingredient |-> From(s, e + w2 + 1)]
            ELSE [matched |-> FALSE, unit |-> "", amount |-> "", ingredient |-> ""]
        AfterAmount(lead, u, p, e) ==
            Groups(lead, u, p, e, Min(SpacesFrom(s, e + 1), Len(s) - e - 1))
        AfterSpaces(lead, u, p) == AfterAmount(lead, u, p, NumericAmountEnd(s, p))
        AfterUnit(lead, u) ==
            AfterSpaces(lead, u, lead + u + SpacesFrom(s, lead + u + 1) + 1)
        AfterLead(lead) == AfterUnit(lead, TokenFrom(s, lead + 1))
    IN  AfterLead(SpacesFrom(s, 1))

\* pattern_amount_first: [matched, amount, unit, ingredient].  (?P<unit>\S+)?
\* takes the whole token after the amount when text follows it; when the
\* token ends the string it gives back its last character to (.+), and a
\* token of one character is left to (.+) altogether.
match_amount_first(s) ==
    LET n == Len(s)
        Groups(lead, e, q, t, w2) ==
            IF e = 0 \/ q > n
            THEN [matched |-> FALSE, amount |-> "", unit |-> "", ingredient |-> ""]
            ELSE IF q + t + w2 <= n
            THEN [matched |-> TRUE, amount |-> SubSeq(s, lead + 1, e),
                  unit |-> SubSeq(s, q, q + t - 1),
                  ingredient |-> From(s, q + t + w2)]
            ELSE IF q + t - 1 = n
            THEN [matched |-> TRUE, amount |-> SubSeq(s, lead + 1, e),
                  unit |-> SubSeq(s, q, n - 1), ingredient |-> From(s, n)]
            ELSE [matched |-> TRUE, amount |-> SubSeq(s, lead + 1, e),
                  unit |-> SubSeq(s, q, q + t - 1), ingredient |-> From(s, n)]
        AfterToken(lead, e, q, t) == Groups(lead, e, q, t, SpacesFrom(s, q + t))
        AfterSpaces(lead, e, q) ==
            AfterToken(lead, e, q, IF q > n THEN 0 ELSE TokenFrom(s, q))
        AfterAmount(lead, e) == AfterSpaces(lead, e, e + SpacesFrom(s, e + 1) + 1)
        AfterLead(lead) == AfterAmount(lead, NumericAmountEnd(s, lead + 1))
    IN  AfterLead(SpacesFrom(s, 1))

Result(amount, unit, ingredient, notes) ==
    [amount |-> amount, unit |-> unit, ingredient |-> ingredient, notes |-> notes]

parse_ingredient(ingredient_str) ==
    LET RECURSIVE Removed(_)
        Removed(s) ==
            LET open == IndexFrom(s, "(", 1)
                close == IF open = 0 THEN 0 ELSE IndexFrom(s, ")", open + 1)
            IN  IF open = 0 \/ close = 0 THEN s
                ELSE SubSeq(s, 1, open - 1) \o Removed(From(s, close + 1))
        \* 5. pattern A
        AmountFirst(str, notes, m) ==
            IF ~m.matched THEN Result("", "", str, notes)
            ELSE IF m.unit # "" /\ ToLower(m.unit) \in known_units
            THEN Result(m.amount, m.unit, m.ingredient, notes)
            ELSE IF m.unit # ""
            THEN Result(m.amount, "", m.unit \o " " \o m.ingredient, notes)
            ELSE Result(m.amount, "", m.ingredient, notes)
        \* 5. pattern B
        UnitFirst(str, notes, m) ==
            IF m.matched /\ ToLower(m.unit) \in known_units
            THEN Result(m.amount, m.unit, m.ingredient, notes)
            ELSE AmountFirst(str, notes, match_amount_first(str))
        \* 4. range quantities
        RangeTokens(m, tokens, notes) ==
            IF tokens # <<>> /\ ToLower(tokens[1]) \in known_units
            THEN Result(m.amount, tokens[1], Join(Tail(tokens)), notes)
            ELSE Result(m.amount, "", m.rest, notes)
        RangeQuantity(str, notes, m) ==
            IF m.matched THEN RangeTokens(m, Split(m.rest), notes)
            ELSE UnitFirst(str, notes, match_unit_first(str))
        \* 3. qualitative amounts at the start
        Remainder(phrase, rem, notes) ==
            Result(phrase, "",
                   IF StartsWith(ToLower(rem), "of ") THEN Strip(From(rem, 4))
                   ELSE rem,
                   notes)
        Qualitative(str, notes, starts) ==
            IF starts # {}
            THEN Remainder(
                    qualitative_amounts[CHOOSE k \in starts : \A j \in starts : k <= j],
                    Strip(From(str,
                        Len(qualitative_amounts[
                            CHOOSE k \in starts : \A j \in starts : k <= j]) + 1)),
                    notes)
            ELSE RangeQuantity(str, notes, match_range(str))
        \* 2. a comma and no numeric quantity
        Comma(str, notes, comma) ==
            IF ~HasDigit(str) /\ comma # 0
            THEN Result("", "", Strip(SubSeq(str, 1, comma - 1)),
                        IF notes # "" THEN notes \o " " \o Strip(From(str, comma + 1))
                        ELSE Strip(From(str, comma + 1)))
            ELSE Qualitative(str, notes,
                    {k \in 1..Len(qualitative_amounts) :
                        StartsWith(ToLower(str), qualitative_amounts[k])})
        \* 1. parenthetical notes
        Cleaned(str, notes) == Comma(str, notes, IndexFrom(str, ",", 1))
        Notes(stripped, found) ==
            Cleaned(IF found = <<>> THEN stripped ELSE Strip(Removed(stripped)),
                    Join(found))
        Stripped(str) == Notes(str, parenthetical_notes(str))
    IN  Stripped(Strip(ingredient_str))

-----------------------------------------------------------------------------
(* parse_ingredient applied to "<number> <rest>" *)

ClassifyNumbers == {"2", "12", "1/2", "1 1/2", "2.5"}

ClassifyTokens ==
    {"eggs", "egg", "large", "ripe", "x", "onion", "Garlic", "cups", "cup",
     "Tbsp", "kg", "can", "handfuls", "cloves"}

ClassifyTails == {"", " eggs", " olive oil", " ripe bananas"}

InitClassify ==
    /\ IdleAggregator
    /\ IdleMacros
    /\ IdleStore
    /\ call \in {[op |-> "parse_ingredient", number |-> n, token |-> t,
                  rest |-> t \o tail, ingredient_str |-> n \o " " \o t \o tail] :
                    n \in ClassifyNumbers, t \in ClassifyTokens,
                    tail \in ClassifyTails}
    /\ ret = None

ParseIngredient ==
    /\ call.op = "parse_ingredient"
    /\ ret = None
    /\ ret' = Some(parse_ingredient(call.ingredient_str))
    /\ UNCHANGED <<call, aggVars, macrosVars, storeVars>>

NextClassify == ParseIngredient

SpecClassify == InitClassify /\ [][NextClassify]_vars

\* C10: in parse_ingredient, for every input "<number> <rest>" whose first
\* token after the number is not a known unit, the result has an empty unit
\* and an `ingredient` equal to <rest> verbatim, a single-word <rest>
\* included.
C10_AmbiguousTokenFoldedVerbatim ==
    (ret # None /\ call.op = "parse_ingredient"
        /\ ToLower(call.token) \notin known_units) =>
            /\ The(ret).unit = ""
            /\ The(ret).ingredient = call.rest

-----------------------------------------------------------------------------
(* both parsers applied to free-form ingredient lines "<lead><text>" *)

NameLeads == {"", "2 ", "1/2 cup ", "a pinch of ", "(optional) ", "  "}

NameTexts ==
    {"salt", "to taste", "salt, to taste", "(optional)", "salt (optional)",
     "fresh basil, chopped", "a pinch", "eggs", "2", "cups"}

InitNames ==
    /\ IdleAggregator
    /\ IdleMacros
    /\ IdleStore
    /\ call \in
          {[op |-> "parse_ingredient", ingredient_str |-> lead \o text] :
              lead \in NameLeads, text \in NameTexts}
          \cup {[op |-> "parse_ingredient_string",
                 ingredient_string |-> lead \o text] :
                    lead \in NameLeads, text \in NameTexts}
    /\ ret = None

NextNames == ParseIngredient \/ ParseIngredientString

SpecNames == InitNames /\ [][NextNames]_vars

\* C12: for every input string that is non-empty after trimming, the parsed
\* ingredient name is non-empty, in parse_ingredient and in every ingredient
\* parse_ingredient_string returns.
C12_NameNonEmpty ==
    /\ (ret # None /\ call.op = "parse_ingredient"
            /\ Strip(call.ingredient_str) # "") =>
                Strip(The(ret).ingredient) # ""
    /\ (ret # None /\ call.op = "parse_ingredient_string"
            /\ Strip(call.ingredient_string) # "" /\ ~The(ret).raised) =>
                \A k \in 1..Len(The(ret).ingredients) :
                    Strip(The(ret).ingredients[k].name) # ""

-----------------------------------------------------------------------------
(* search_food applied to a query and the candidates the service returns *)

MaxCandidates == 3

Food(id, description, data_type) ==
    [fdcId |-> PyInt(id), description |-> Some(description),
     dataType |-> Some(data_type)]

\* "Egg, fried" and "Egg, boiled" score the same for every query
Candidates ==
    Range(EggFoods) \cup
    {Food(1, "Egg, fried", "SR Legacy"), Food(2, "Egg, boiled", "SR Legacy"),
     Food(3, "Butter, salted", "Branded")}

SearchQueries == {"egg", "salted butter"}

InitSearch ==
    /\ IdleAggregator
    /\ IdleMacros
    /\ IdleStore
    /\ call \in {[op |-> "search_food", query |-> q, foods |-> l] :
                    q \in SearchQueries,
                    l \in ListsUpTo(Candidates, MaxCandidates) \ {<<>>}}
    /\ ret = None

SearchFood ==
    /\ call.op = "search_food"
    /\ ret = None
    /\ ret' = Some(search_food_reply(call.query,
                                     [kind |-> "json", foods |-> Some(call.foods)]))
    /\ UNCHANGED <<call, aggVars, macrosVars, storeVars>>

NextSearch == SearchFood

SpecSearch == InitSearch /\ [][NextSearch]_vars

\* the scores of the candidates of the call, in the order of the reply
Scores ==
    [k \in 1..Len(call.foods) |->
        score_food(ToLower(call.query), search_food_query(call.query),
                   call.foods[k]).score]

\* the first position no other position beats
FirstBest(scores) ==
    CHOOSE k \in 1..Len(scores) :
        /\ \A j \in 1..Len(scores) : ~RLess(scores[k], scores[j])
        /\ \A j \in 1..(k - 1) : RLess(scores[j], scores[k])

\* C14: search_food selects the candidate with the highest score among those
\* the search returned; when several candidates share the highest score, the
\* one that came first in the search result is selected.
C14_HighestScoreFirstOnTie ==
    (ret # None /\ call.op = "search_food") =>
        \A scores \in {Scores} :
            /\ ~The(ret).raised
            /\ Len(The(ret).foods) = 1
            /\ The(ret).foods[1].fdcId = call.foods[FirstBest(scores)].fdcId
            /\ The(ret).foods[1].score = scores[FirstBest(scores)]

\* two different candidates share the highest score and the earlier one has
\* been selected
C14_Witness ==
    /\ ret # None
    /\ call.op = "search_food"
    /\ \E scores \in {Scores} :
          \E j, k \in 1..Len(scores) :
              /\ j < k
              /\ call.foods[j].fdcId # call.foods[k].fdcId
              /\ scores[j] = scores[k]
              /\ \A i \in 1..Len(scores) : ~RLess(scores[j], scores[i])
              /\ The(ret).foods[1].fdcId = call.foods[j].fdcId

-----------------------------------------------------------------------------
(* search_food applied to a query, the service answering with one candidate *)

\* search_food as a whole: `requested` tells whether requests.get was called
search_food(query, reply) ==
    LET Local(result) ==
            [raised |-> result.raised, foods |-> result.foods,
             requested |-> FALSE]
        Remote(result) ==
            [raised |-> result.raised, foods |-> result.foods,
             requested |-> TRUE]
        After(local) ==
            IF local # None THEN Local(The(local))
            ELSE Remote(search_food_reply(query, reply))
    IN  After(search_food_local(query))

ScoreQueries ==
    {"egg", "Egg (large)", "raw egg", "onion", "fresh milk", "almond milk",
     "unsalted butter", "olive oil", "flour", "cheese", "sugar",
     "Butter", "WHOLE MILK", "salt", "water", "Water"}

ScoreDescriptions ==
    {"Egg", "egg", "Egg, whole, raw, fresh", "Egg whole raw", "Egg sandwich",
     "Rice with egg", "Onions, raw", "Raisins", "Almond milk",
     "Almond butter", "Milk, whole", "Coconut oil", "Butter substitute",
     "Soy flour", "Cheese, flavored", "Coconut sugar"}

ScoreDataTypes == {"SR Legacy", "Branded"}

InitScore ==
    /\ IdleAggregator
    /\ IdleMacros
    /\ IdleStore
    /\ call \in {[op |-> "search_food", query |-> q,
                  foods |-> <<Food(9, d, t)>>] :
                    q \in ScoreQueries, d \in ScoreDescriptions,
                    t \in ScoreDataTypes}
    /\ ret = None

ScoreFood ==
    /\ call.op = "search_food"
    /\ ret = None
    /\ ret' = Some(search_food(call.query,
                               [kind |-> "json", foods |-> Some(call.foods)]))
    /\ UNCHANGED <<call, aggVars, macrosVars, storeVars>>

NextScore == ScoreFood

SpecScore == InitScore /\ [][NextScore]_vars

\* C21 (as stated): when the query equals, case-insensitively, a key of the
\* mapping table, search_food returns exactly one candidate carrying the
\* mapped id and makes no search request; the search and the scoring run
\* only for queries that are neither water nor a mapping key.
C21_MappingKeyGivesMappedId ==
    (ret # None /\ call.op = "search_food") =>
        /\ HasKey(food_mappings, ToLower(call.query)) =>
              /\ ~The(ret).requested
              /\ Len(The(ret).foods) = 1
              /\ The(ret).foods[1].fdcId =
                    PyStr(Get(food_mappings, ToLower(call.query)))
        /\ The(ret).requested =>
              /\ ToLower(call.query) # "water"
              /\ ~HasKey(food_mappings, ToLower(call.query))

\* C21 (amended): the same for every mapping key other than water; for
\* water, which is also a key of the table, the special entry with the id
\* 'water' is returned, not the mapped id, and no request is made either.
C21_MappingKeyButWater ==
    (ret # None /\ call.op = "search_food") =>
        /\ (HasKey(food_mappings, ToLower(call.query))
                /\ ToLower(call.query) # "water") =>
              /\ ~The(ret).requested
              /\ Len(The(ret).foods) = 1
              /\ The(ret).foods[1].fdcId =
                    PyStr(Get(food_mappings, ToLower(call.query)))
        /\ ToLower(call.query) = "water" =>
              /\ ~The(ret).requested
              /\ Len(The(ret).foods) = 1
              /\ The(ret).foods[1].fdcId = PyStr("water")
        /\ The(ret).requested =>
              /\ ToLower(call.query) # "water"
              /\ ~HasKey(food_mappings, ToLower(call.query))

\* "Butter" has been answered from the table with the id of butter
C21_Witness ==
    /\ ret # None
    /\ call.op = "search_food"
    /\ call.query = "Butter"
    /\ ~The(ret).requested
    /\ The(ret).foods[1].fdcId = PyStr("173430")

\* the candidate search_food returned after scoring, and its description
Scored == The(ret).foods[1]
Description == ToLower(The(call.foods[1].description))

\* the call reached the scoring loop
ScoredCall ==
    /\ ret # None
    /\ call.op = "search_food"
    /\ The(ret).requested
    /\ ~The(ret).raised
    /\ Len(The(ret).foods) = 1

\* the score of the returned candidate without the exact-match bonus, from
\* the breakdown returned with it
ScoreWithoutBonus ==
    RAdd(Scored.score_breakdown.word_match,
         RInt((IF Scored.score_breakdown.data_type \in {"sr legacy", "foundation"}
               THEN PREFERRED_CATEGORY_BONUS ELSE 0)
              - (IF Contains(Scored.score_breakdown.data_type, "brand")
                 THEN BRAND_PENALTY ELSE 0)
              - Scored.score_breakdown.length_penalty
              - Scored.score_breakdown.prepared_food_penalty
              - Scored.score_breakdown.modifier_penalty
              + prep_bonus(ToLower(call.query), Description)))

\* C22: a candidate receives the exact-match bonus if and only if the
\* cleaned query (parenthetical asides removed, surrounding white space
\* trimmed, compared case-insensitively) equals the candidate description.
C22_ExactBonusIffCleanedEqual ==
    ScoredCall =>
        Scored.score =
            RAdd(ScoreWithoutBonus,
                 RInt(IF ToLower(search_food_query(call.query)) = Description
                      THEN EXACT_MATCH_BONUS ELSE 0))

\* a word without the punctuation that follows it
RECURSIVE TrimPunctuation(_)
TrimPunctuation(word) ==
    IF word # "" /\ IsIn(Ch(word, Len(word)), ",.;:")
    THEN TrimPunctuation(SubSeq(word, 1, Len(word) - 1))
    ELSE word

\* the whole words of a text
WholeWords(text) == {TrimPunctuation(w) : w \in Range(Split(text))}

\* C23: the prepared-food penalty is applied to a candidate exactly when its
\* description contains a dish-indicator word as a whole word; a candidate
\* whose description contains no dish-indicator word has a penalty of 0.
C23_PenaltyIffIndicatorWord ==
    ScoredCall =>
        (Scored.score_breakdown.prepared_food_penalty > 0
            <=> \E k \in 1..Len(prepared_indicators) :
                    prepared_indicators[k] \in WholeWords(Description))

\* the basic ingredients and the variant modifiers as the specification
\* lists them
C24_Basics == {"milk", "cheese", "butter", "cream", "oil", "flour", "sugar"}
C24_Modifiers == {"coconut", "almond", "soy", "flavored", "substitute"}

\* C24: for every query that contains one of the basic ingredients and every
\* candidate whose description contains one of the variant modifiers that
\* does not occur in the query, the modifier penalty is strictly positive.
C24_VariantPenalised ==
    (/\ ScoredCall
     /\ \E basic \in C24_Basics : Contains(ToLower(call.query), basic)
     /\ \E modifier \in C24_Modifiers :
            /\ Contains(Description, modifier)
            /\ ~Contains(ToLower(call.query), modifier))
    => Scored.score_breakdown.modifier_penalty > 0

\* C29: in the word-overlap score every query word that occurs in the
\* candidate description as a whole word counts as a matching word, also
\* when punctuation follows the word in the description.
C29_WholeWordsMatch ==
    ScoredCall =>
        \A word \in Range(Split(ToLower(search_food_query(call.query)))) :
            word \in WholeWords(Description) =>
                word \in Scored.score_breakdown.matching_words

-----------------------------------------------------------------------------
(* get_food_nutrients applied to the payloads the service can return *)

MaxEntries == 3

\* entries of both shapes, recognised and not, well formed and not
PayloadEntries ==
    {Nested(1008, Dec(143, 1)), Flat(1008, Dec(60, 1)),
     Nested(1003, Dec(1256, 100)), Flat(9999, Dec(1, 1)),
     [shape |-> "nutrientId", id |-> Some(PyStr("1093")),
      amount |-> Some(PyNum(Dec(24, 1)))],
     [shape |-> "nutrient", id |-> Some(PyStr("n/a")),
      amount |-> Some(PyNum(Dec(1, 1)))],
     [shape |-> "nutrient", id |-> Some(PyInt(1092)), amount |-> None],
     [shape |-> "nutrientId", id |-> None, amount |-> Some(PyNum(Dec(5, 1)))],
     [shape |-> "nutrient_null", id |-> None, amount |-> None]}

InitNutrients ==
    /\ IdleAggregator
    /\ IdleMacros
    /\ IdleStore
    /\ call \in {[op |-> "get_food_nutrients", payload |-> l] :
                    l \in ListsUpTo(PayloadEntries, MaxEntries)}
    /\ ret = None

GetFoodNutrients ==
    /\ call.op = "get_food_nutrients"
    /\ ret = None
    /\ ret' = Some(get_food_nutrients_reply(
                    [kind |-> "json", foodNutrients |-> Some(call.payload)]))
    /\ UNCHANGED <<call, aggVars, macrosVars, storeVars>>

NextNutrients == GetFoodNutrients

SpecNutrients == InitNutrients /\ [][NextNutrients]_vars

\* the reference id of each key, as the table of the specification gives it
C25_ReferenceId ==
    [calories |-> 1008, total_fat |-> 1004, saturated_fat |-> 1258,
     trans_fat |-> 1257, cholesterol |-> 1253, sodium |-> 1093,
     total_carbohydrates |-> 1005, dietary_fiber |-> 1079,
     total_sugars |-> 2000, added_sugars |-> 1235, protein |-> 1003,
     vitamin_d |-> 1114, calcium |-> 1087, iron |-> 1089, potassium |-> 1092]

\* the positions of the payload that give a value for the key
C25_Giving(key) ==
    {k \in 1..Len(call.payload) :
        /\ call.payload[k].shape \in {"nutrient", "nutrientId"}
        /\ call.payload[k].id # None
        /\ call.payload[k].amount # None
        /\ PyToInt(The(call.payload[k].id)) = Some(C25_ReferenceId[key])}

\* C25: for every payload get_food_nutrients returns a map that contains
\* key k with value v exactly when the payload has an entry, in either
\* shape, whose id converts to the integer the table assigns to k and whose
\* amount is v, the last such entry winning; entries with an unrecognised
\* id, a non-integer id or a missing amount add nothing and raise nothing.
C25_MapIsTableLookup ==
    (ret # None /\ call.op = "get_food_nutrients") =>
        /\ ~The(ret).raised
        /\ DOMAIN The(ret).nutrients =
              {key \in DOMAIN C25_ReferenceId : C25_Giving(key) # {}}
        /\ \A key \in DOMAIN The(ret).nutrients :
              \E last \in C25_Giving(key) :
                  /\ \A k \in C25_Giving(key) : k <= last
                  /\ Some(The(ret).nutrients[key]) =
                        PyToFloat(The(call.payload[last].amount))

-----------------------------------------------------------------------------
(* firebase_service.FirebaseService.store_recipe, called concurrently.
   document_ref.get() and document_ref.set(data) are two separate requests
   to Firestore, issued without a transaction, a precondition or create();
   the collection is shared by every server process that handles
   POST /videos/, so the requests of different calls interleave. *)

MaxStoreCalls == 3

VideoIds == {"abc", "xyz"}

Titles == {"Pasta", "Soup"}

\* values of datetime.now(), each server process reading its own clock
Clock == 1..2

\* the dict that store_recipe hands to document_ref.set
Document(video_id, data, now) ==
    [video_id |-> video_id, title |-> data, created_at |-> now]

StoreCall(video_id, data, state) ==
    [video_id |-> video_id, data |-> data, state |-> state]

InitStore ==
    /\ IdleAggregator
    /\ IdleMacros
    /\ call = NoCall
    /\ ret = None
    /\ documents \in [VideoIds -> {None} \cup {Some(Document(v, "Stew", 0)) : v \in VideoIds}]
    /\ \A v \in VideoIds : documents[v] # None => The(documents[v]).video_id = v
    /\ \E n \in 1..MaxStoreCalls :
          store_calls \in [1..n -> {StoreCall(v, d, "get") : v \in VideoIds, d \in Titles}]

\* lines 18-23: document_ref.get(), then `if document.exists: return`
DocumentGet(i) ==
    /\ store_calls[i].state = "get"
    /\ store_calls' = [store_calls EXCEPT ![i].state =
                          IF documents[store_calls[i].video_id] # None
                          THEN "returned" ELSE "set"]
    /\ UNCHANGED <<documents, call, ret, aggVars, macrosVars>>

\* lines 25-29: the timestamp and the id are added and the document is set
DocumentSet(i) ==
    /\ store_calls[i].state = "set"
    /\ \E now \in Clock :
          documents' = [documents EXCEPT ![store_calls[i].video_id] =
                           Some(Document(store_calls[i].video_id,
                                         store_calls[i].data, now))]
    /\ store_calls' = [store_calls EXCEPT ![i].state = "returned"]
    /\ UNCHANGED <<call, ret, aggVars, macrosVars>>

\* lines 31-32: a request to Firestore raises, answered with status 500
StoreRaises(i) ==
    /\ store_calls[i].state \in {"get", "set"}
    /\ store_calls' = [store_calls EXCEPT ![i].state = "raised"]
    /\ UNCHANGED <<documents, call, ret, aggVars, macrosVars>>

NextStore ==
    \E i \in DOMAIN store_calls :
        \/ DocumentGet(i)
        \/ DocumentSet(i)
        \/ StoreRaises(i)

SpecStore == InitStore /\ [][NextStore]_vars

\* C30: once a recipe document exists for a video id no step of store_recipe
\* changes it, so the document of the first completed write remains under
\* every interleaving of the calls.
C30_Step ==
    \A v \in DOMAIN documents :
        documents[v] # None => documents'[v] = documents[v]

C30_ExistingDocumentNeverChanges == [][C30_Step]_vars

====
